---- MODULE Spec2Model ----
(***************************************************************************)
(* A model of the resilient multi-provider orchestration core of           *)
(* brain-index-geo-monolith:                                               *)
(*   - the multi-provider server's job store and runMultiProviderAnalysis  *)
(*     (src/src/index.ts),                                                 *)
(*   - the Redis-backed circuit breaker and withRetry                      *)
(*     (src/src/resilience/retry.ts),                                      *)
(*   - the tenant rate limiter (src/src/modules/analyzer/tenant-rl.ts).    *)
(* Each subsystem has its own specification over the module's variables;   *)
(* a specification leaves the other subsystems' variables unchanged.       *)
(***************************************************************************)
EXTENDS Integers, Sequences, FiniteSets, TLC

VARIABLES
  \* ---- multi-provider server (index.ts) ----
  enabled,      \* providers whose isEnabled() held when the lists were built
  config,       \* the providers the configuration (API keys, PROVIDER_*_ENABLED,
                \* PROVIDERS) enables now
  jobResults,   \* the jobResults Map: job id -> record (NoJob when absent)
  runPc,        \* position of each runMultiProviderAnalysis invocation
  runTier,      \* its tier argument
  runId,        \* its jobId argument
  call,         \* state of each p.analyze promise of the invocation
  val,          \* value a fulfilled (and, for free, rescaled) call carries
  raw,          \* history: the score the provider itself returned
  lastWriter,   \* history: the invocation that last wrote jobResults[id]
  \* ---- circuit breaker (resilience/retry.ts) ----
  now,          \* Date.now(), and the clock of the Redis server, in ms
  cbActive,     \* providers that calls are made for
  cbState,      \* key cb:<p>:state ("none" when absent)
  cbFails,      \* key cb:<p>:fails (0 when absent)
  cbFailsExp,   \* its expiry time (0: no TTL)
  cbOpenAt,     \* key cb:<p>:openAt (0 when absent)
  cbProbe,      \* key cb:<p>:probe exists
  cbProbeExp,   \* its expiry time
  cpc,          \* position of each caller (invoker of one provider call)
  cprov,        \* the provider the caller's call is for
  admit,        \* history: how the caller's shouldShortCircuit admitted it
  streak,       \* history: recordFailure calls since the last recordSuccess
  streakStart,  \* history: time of the first of them
  openedReal,   \* history: time the state last changed to open (0: not open)
  recent,       \* history: the times of the latest recordFailure calls (at most
                \* thld of them) since the last recordSuccess
  \* ---- withRetry (resilience/retry.ts) ----
  rtPc,         \* position of the withRetry invocation
  rtAttempts,   \* its attempts argument
  rtMin,        \* its minMs argument
  rtMax,        \* its maxMs argument
  rtI,          \* the loop variable i
  rtLastErr,    \* lastErr (NoErr before any failure)
  rtDelay,      \* the backoff being slept
  rtOut,        \* how withRetry settled: kind, value returned, error thrown
  rtCalls,      \* history: invocations of fn so far
  rtFirstErr,   \* history: the error of the first attempt
  \* ---- tenant rate limiter (modules/analyzer/tenant-rl.ts) ----
  rlNow,        \* the clock of the Redis server, in ms
  rlCount,      \* key rl:tenant:<id> (0 when absent)
  rlExp,        \* its expiry time (0: no TTL)
  rlPc,         \* position of each checkTenantRate call
  rlGot,        \* the count its INCR returned
  winCalls,     \* history: calls counted since the key was created
  winTrue,      \* history: those of them that returned true
  rlWin,        \* history: how many times the key has expired
  rlRet,        \* history: each caller's latest call: what it returned, its
                \* position among the calls of the key's lifetime, and rlWin then
  \* ---- queue-based API (analyzer.controller.ts, queue/index.ts, analyzer.service.ts) ----
  qNow,         \* the clock, in seconds
  qCache,       \* Redis: cache key -> entry (value, expiry) or NoEntry
  qDb,          \* table VisibilityScore: row id -> row or NoRow
  qRows,        \* rows created so far
  qJobs,        \* BullMQ queue "analyze": job id -> job (state, data.input, return value)
  qAdded,       \* jobs added so far
  wPc,          \* position of the worker's processor in each job
  wRow,         \* the id of the row it created
  wGpt,         \* the chatGPTScore it obtained
  qCalls,       \* history: checkChatGPT invocations made for each job
  qDoneAt,      \* history: the time each job completed
  wPrior,       \* history: jobs of the same normalised input that had completed
                \* less than a TTL before the job's processing started
  \* ---- AnalyzerService (analyzer.service.ts of the Nest application) ----
  asCount,      \* table Analysis: the user's rows created today
  asPlan,       \* the user's plan
  asCached,     \* Redis: the cache keys analysis:<brand> that exist
  asPc,         \* position of the analyzeWithOpenAI invocation
  asBrand,      \* its brandName argument
  asOut,        \* what it settled with: kind and scores
  asCalls,      \* history: OpenAI requests made by the invocation
  asLimited,    \* history: checkRateLimits found the quota exhausted
  \* ---- completion order of the provider calls (history) ----
  settleSeq,    \* history: the providers of each invocation in the order their
                \* calls settled
  \* ---- ProvidersService (services/providers.service.ts) ----
  psProviders,  \* the keys of this.providers: the configured providers
  psRes,        \* the promise of the latest analyzeWithProvider call per provider
  psAllPc,      \* position of the analyzeWithAllProviders invocation
  psAllOut,     \* how it settled
  psAgg,        \* what aggregateResults returned for its results
  \* ---- lock (shared/lock.ts) ----
  lkNow,        \* the clock of the Redis server, in ms
  lkExp,        \* expiry time of the lock key (0 when the key is absent)
  lkPc,         \* each client: "locked" from an acquireLock that returned true
                \* until its releaseLock
  lkHoldExp,    \* history: the expiry time its acquireLock set
  lkRet,        \* history: what each client's latest acquireLock returned
  scTier,       \* score run: the tier of the job
  scCall,       \* score run: provider -> "pending" | "fulfilled" | "rejected"
  scRaw,        \* score run: provider -> the score p.analyze resolved with
  scVal,        \* score run: provider -> result.score after lines 845-848
  scResult,     \* score run: the result stored for the job, or NoScResult
  \* ---- AnalyzerService, concurrent requests of one user ----
  cqRows,       \* Analysis rows of the user created today
  cqPc,         \* position of each analyzeWithOpenAI invocation
  cqPerformed   \* history: analyses of today for which OpenAI answered

jobVars == <<enabled, config, jobResults, runPc, runTier, runId, call, val, raw, lastWriter>>

cbVars == <<now, cbActive, cbState, cbFails, cbFailsExp, cbOpenAt, cbProbe, cbProbeExp,
            cpc, cprov, admit, streak, streakStart, openedReal, recent>>

rtVars == <<rtPc, rtAttempts, rtMin, rtMax, rtI, rtLastErr, rtDelay, rtOut, rtCalls,
            rtFirstErr>>

rlVars == <<rlNow, rlCount, rlExp, rlPc, rlGot, winCalls, winTrue, rlWin, rlRet>>

qVars == <<qNow, qCache, qDb, qRows, qJobs, qAdded, wPc, wRow, wGpt, qCalls, qDoneAt,
           wPrior>>

asVars == <<asCount, asPlan, asCached, asPc, asBrand, asOut, asCalls, asLimited>>

ordVars == <<settleSeq>>

psVars == <<psProviders, psRes, psAllPc, psAllOut, psAgg>>

lkVars == <<lkNow, lkExp, lkPc, lkHoldExp, lkRet>>

scVars == <<scTier, scCall, scRaw, scVal, scResult>>

cqVars == <<cqRows, cqPc, cqPerformed>>

vars == <<jobVars, cbVars, rtVars, rlVars, qVars, asVars, ordVars, psVars, lkVars, scVars, cqVars>>

\* What the actions of one subsystem leave alone.
nonJobVars == <<cbVars, rtVars, rlVars, qVars, asVars, psVars, lkVars, scVars, cqVars>>
nonCbVars == <<jobVars, rtVars, rlVars, qVars, asVars, ordVars, psVars, lkVars, scVars, cqVars>>
nonRtVars == <<jobVars, cbVars, rlVars, qVars, asVars, ordVars, psVars, lkVars, scVars, cqVars>>
nonRlVars == <<jobVars, cbVars, rtVars, qVars, asVars, ordVars, psVars, lkVars, scVars, cqVars>>
nonQVars == <<jobVars, cbVars, rtVars, rlVars, asVars, ordVars, psVars, lkVars, scVars, cqVars>>
nonAsVars == <<jobVars, cbVars, rtVars, rlVars, qVars, ordVars, psVars, lkVars, scVars, cqVars>>
nonOrdVars == <<jobVars, cbVars, rtVars, rlVars, qVars, asVars, psVars, lkVars, scVars, cqVars>>
nonPsVars == <<jobVars, cbVars, rtVars, rlVars, qVars, asVars, ordVars, lkVars, scVars, cqVars>>
nonLkVars == <<jobVars, cbVars, rtVars, rlVars, qVars, asVars, ordVars, psVars, scVars, cqVars>>
nonScVars == <<jobVars, cbVars, rtVars, rlVars, qVars, asVars, ordVars, psVars, lkVars, cqVars>>
nonCqVars == <<jobVars, cbVars, rtVars, rlVars, qVars, asVars, ordVars, psVars, lkVars, scVars>>

(***************************************************************************)
(* Multi-provider server: job store and runMultiProviderAnalysis           *)
(***************************************************************************)

\* The providers of the registry, in list order (3 of the 5 of each tier).
\* "chatgpt" is ChatGPTFreeProvider in the free list, ChatGPTProvider in the pro list.
ProviderOrder == <<"chatgpt", "deepseek", "grok">>

Providers == {ProviderOrder[i] : i \in 1..Len(ProviderOrder)}

\* Providers whose analyze() carries its own AbortController deadline.
HasDeadline(p) == p \in {"deepseek", "grok"}

Tiers == {"free", "pro"}

\* Invocations of POST /api/analyzer/analyze the model follows.
Runs == {"r1", "r2"}

\* Values Math.random().toString(36).substring(7) may take.
JobIds == {"j1", "j2"}

\* Scores a provider may return (ProviderResult.score, 0..100).
ScoreSamples == {18, 22}

NoJob == [status |-> "absent"]

\* buildProviders(tier): the free list always holds ChatGPTFreeProvider.
BuildProviders(tier, en) ==
  IF tier = "free" THEN en \cup {"chatgpt"} ELSE en

\* The provider list the POST handler picks for a tier.
ProvidersOf(tier) == BuildProviders(tier, enabled)

\* ProviderResult.name of provider p in a tier's list.
ResultName(p, tier) == IF tier = "free" /\ p = "chatgpt" THEN "chatgpt-free" ELSE p

\* Math.round(a / b) for a >= 0, b > 0.
RoundDiv(a, b) == (2 * a + b) \div (2 * b)

\* Mutant of ScaleScore: the free tier stores the score as it came.
ScaleScoreOff(tier, score) == score

\* index.ts 845-848: force scale to 0-20 for the free tier.
ScaleScore(tier, score) ==
  IF tier = "free" /\ score > 20 THEN RoundDiv(score, 5) ELSE score

RECURSIVE SumOver(_, _)
SumOver(f, S) ==
  IF S = {} THEN 0
  ELSE LET x == CHOOSE y \in S : TRUE IN f[x] + SumOver(f, S \ {x})

\* index.ts 873-875: Math.round(sum / successfulResults.length)
AvgScore(scores, succ) == RoundDiv(SumOver(scores, succ), Cardinality(succ))

\* index.ts 918
DisplayMultiplier(tier) == IF tier = "free" THEN 5 ELSE 1

\* successfulResults in list order, as result.providers stores them.
RECURSIVE ProvidersField(_, _, _, _)
ProvidersField(i, tier, scores, succ) ==
  IF i > Len(ProviderOrder) THEN <<>>
  ELSE LET p == ProviderOrder[i]
           rest == ProvidersField(i + 1, tier, scores, succ)
       IN IF p \in succ
          THEN <<[name |-> ResultName(p, tier), score |-> scores[p]]>> \o rest
          ELSE rest

\* What /CONFIDENCE: (High|Medium|Low)/ finds in the primary result's
\* meta.analysis ("none": no match, or no analysis text).
ConfSamples == {"none", "Low", "High"}

\* index.ts 882-904: result.confidence
Confidence(tier, match) == IF tier = "pro" /\ match # "none" THEN match ELSE "Medium"

\* index.ts 920-951: the record stored for a job with >= 1 fulfilled provider.
CompletedRecord(tier, scores, succ, match) ==
  [status |-> "completed",
   hasResult |-> TRUE,
   score |-> AvgScore(scores, succ) * DisplayMultiplier(tier),
   confidence |-> Confidence(tier, match),
   error |-> "none",
   providers |-> ProvidersField(1, tier, scores, succ),
   tier |-> tier]

\* index.ts 974-985: the record the catch block stores.
CatchRecord(tier) ==
  [status |-> "completed",
   hasResult |-> TRUE,
   score |-> IF tier = "free" THEN 5 ELSE 30,
   confidence |-> "none",
   error |-> "Analysis failed",
   providers |-> <<>>,
   tier |-> tier]

\* Mutant of ProcessingRecord: the processing record carries a result.
ProcessingRecordWithResult(tier) ==
  [status |-> "processing",
   hasResult |-> TRUE,
   score |-> 0,
   confidence |-> "none",
   error |-> "none",
   providers |-> <<>>,
   tier |-> tier]

\* index.ts 826-833
ProcessingRecord(tier) ==
  [status |-> "processing",
   hasResult |-> FALSE,
   score |-> 0,
   confidence |-> "none",
   error |-> "none",
   providers |-> <<>>,
   tier |-> tier]

\* Mutant of Succeeded: the filter keeps every settled result, rejected ones too.
SucceededAnySettled(r) == {p \in Providers : call[r][p] \in {"fulfilled", "rejected"}}

\* index.ts 860-862: the values of the fulfilled results.
Succeeded(r) == {p \in Providers : call[r][p] = "fulfilled"}

Settled(r) == \A p \in Providers : call[r][p] \in {"none", "fulfilled", "rejected"}

JobInitWith(en) ==
  /\ enabled = en
  /\ config = en
  /\ jobResults = [j \in JobIds |-> NoJob]
  /\ runPc = [r \in Runs |-> "idle"]
  /\ runTier = [r \in Runs |-> "pro"]
  /\ runId = [r \in Runs |-> "j1"]
  /\ call = [r \in Runs |-> [p \in Providers |-> "none"]]
  /\ val = [r \in Runs |-> [p \in Providers |-> 0]]
  /\ raw = [r \in Runs |-> [p \in Providers |-> 0]]
  /\ lastWriter = [j \in JobIds |-> "none"]

\* Mutant of Submit: the record is not stored before the handler returns.
SubmitNoRecord(r, tier, id) ==
  /\ runPc[r] = "idle"
  /\ runPc' = [runPc EXCEPT ![r] = "awaiting"]
  /\ runTier' = [runTier EXCEPT ![r] = tier]
  /\ runId' = [runId EXCEPT ![r] = id]
  /\ call' = [call EXCEPT ![r] =
                [p \in Providers |-> IF p \in ProvidersOf(tier) THEN "pending" ELSE "none"]]
  /\ UNCHANGED <<enabled, config, jobResults, lastWriter, val, raw, nonJobVars>>

\* POST /api/analyzer/analyze (index.ts 774-812) with the synchronous prefix of
\* runMultiProviderAnalysis (815-857): the record is set to processing and every
\* provider's analyze() is started before the handler returns.
Submit(r, tier, id) ==
  /\ runPc[r] = "idle"
  /\ runPc' = [runPc EXCEPT ![r] = "awaiting"]
  /\ runTier' = [runTier EXCEPT ![r] = tier]
  /\ runId' = [runId EXCEPT ![r] = id]
  /\ jobResults' = [jobResults EXCEPT ![id] = ProcessingRecord(tier)]
  /\ lastWriter' = [lastWriter EXCEPT ![id] = r]
  /\ call' = [call EXCEPT ![r] =
                [p \in Providers |-> IF p \in ProvidersOf(tier) THEN "pending" ELSE "none"]]
  /\ UNCHANGED <<enabled, config, val, raw, nonJobVars>>

\* p.analyze resolves with a score; lines 842-851 rescale it and fulfil.
ProviderFulfil(r, p, s) ==
  /\ runPc[r] = "awaiting"
  /\ call[r][p] = "pending"
  /\ call' = [call EXCEPT ![r][p] = "fulfilled"]
  /\ val' = [val EXCEPT ![r][p] = ScaleScore(runTier[r], s)]
  /\ raw' = [raw EXCEPT ![r][p] = s]
  /\ UNCHANGED <<enabled, config, jobResults, runPc, runTier, runId, lastWriter, nonJobVars>>

\* p.analyze rejects (remote error, or the provider's own timeout); 852-855 rethrow.
ProviderReject(r, p) ==
  /\ runPc[r] = "awaiting"
  /\ call[r][p] = "pending"
  /\ call' = [call EXCEPT ![r][p] = "rejected"]
  /\ UNCHANGED <<enabled, config, jobResults, runPc, runTier, runId, val, raw, lastWriter,
                 nonJobVars>>

\* A call of a provider without a deadline of its own that never settles.
ProviderHang(r, p) ==
  /\ runPc[r] = "awaiting"
  /\ call[r][p] = "pending"
  /\ ~HasDeadline(p)
  /\ call' = [call EXCEPT ![r][p] = "hung"]
  /\ UNCHANGED <<enabled, config, jobResults, runPc, runTier, runId, val, raw, lastWriter,
                 nonJobVars>>

\* successfulResults in the order the calls settled.
RECURSIVE CompletionField(_, _, _, _)
CompletionField(seq, tier, scores, succ) ==
  IF seq = <<>> THEN <<>>
  ELSE LET p == Head(seq)
           rest == CompletionField(Tail(seq), tier, scores, succ)
       IN IF p \in succ
          THEN <<[name |-> ResultName(p, tier), score |-> scores[p]]>> \o rest
          ELSE rest

\* Mutant of Finalize: the results are collected in completion order.
FinalizeCompletionOrder(r) ==
  /\ runPc[r] = "awaiting"
  /\ Settled(r)
  /\ \E match \in IF runTier[r] = "pro" /\ Succeeded(r) # {} THEN ConfSamples ELSE {"none"} :
       jobResults' = [jobResults EXCEPT ![runId[r]] =
                        IF Succeeded(r) = {}
                        THEN CatchRecord(runTier[r])
                        ELSE [CompletedRecord(runTier[r], val[r], Succeeded(r), match)
                                EXCEPT !.providers =
                                  CompletionField(settleSeq[r], runTier[r], val[r],
                                                  Succeeded(r))]]
  /\ lastWriter' = [lastWriter EXCEPT ![runId[r]] = r]
  /\ runPc' = [runPc EXCEPT ![r] = "done"]
  /\ UNCHANGED <<enabled, config, runTier, runId, call, val, raw, nonJobVars>>

\* The continuation after Promise.allSettled (index.ts 859-986).
Finalize(r) ==
  /\ runPc[r] = "awaiting"
  /\ Settled(r)
  /\ \E match \in IF runTier[r] = "pro" /\ Succeeded(r) # {} THEN ConfSamples ELSE {"none"} :
       jobResults' = [jobResults EXCEPT ![runId[r]] =
                        IF Succeeded(r) = {}
                        THEN CatchRecord(runTier[r])
                        ELSE CompletedRecord(runTier[r], val[r], Succeeded(r), match)]
  /\ lastWriter' = [lastWriter EXCEPT ![runId[r]] = r]
  /\ runPc' = [runPc EXCEPT ![r] = "done"]
  /\ UNCHANGED <<enabled, config, runTier, runId, call, val, raw, nonJobVars>>

\* Ids a client may poll: the ids handed out, and one that never is.
PollIds == JobIds \cup {"nojob"}

\* GET /api/analyzer/results/:id (index.ts 1001-1010)
GetResults(id) ==
  IF id \in DOMAIN jobResults /\ jobResults[id] # NoJob
  THEN [code |-> 200, body |-> jobResults[id]]
  ELSE [code |-> 404, body |-> [status |-> "none", error |-> "Job not found"]]

JobInit == \E en \in SUBSET Providers : JobInitWith(en)

\* The completion order is not recorded.
OrdQuiet == settleSeq = [r \in Runs |-> <<>>]

JobNext ==
  \/ \E r \in Runs, tier \in Tiers, id \in JobIds :
       Submit(r, tier, id) /\ UNCHANGED ordVars
  \/ \E r \in Runs, p \in Providers, s \in ScoreSamples :
       ProviderFulfil(r, p, s) /\ UNCHANGED ordVars
  \/ \E r \in Runs, p \in Providers : ProviderReject(r, p) /\ UNCHANGED ordVars
  \/ \E r \in Runs, p \in Providers : ProviderHang(r, p) /\ UNCHANGED ordVars
  \/ \E r \in Runs : Finalize(r) /\ UNCHANGED ordVars

\* The invocation whose completion order is recorded.
AggRuns == {"r1"}

\* The steps of that invocation, with the order in which its calls settle
\* recorded.
AggNext ==
  \/ \E r \in AggRuns, tier \in Tiers, id \in JobIds :
       Submit(r, tier, id) /\ settleSeq' = [settleSeq EXCEPT ![r] = <<>>]
  \/ \E r \in AggRuns, p \in Providers, s \in ScoreSamples :
       ProviderFulfil(r, p, s) /\ settleSeq' = [settleSeq EXCEPT ![r] = Append(@, p)]
  \/ \E r \in AggRuns, p \in Providers :
       ProviderReject(r, p) /\ settleSeq' = [settleSeq EXCEPT ![r] = Append(@, p)]
  \/ \E r \in AggRuns, p \in Providers : ProviderHang(r, p) /\ UNCHANGED ordVars
  \/ \E r \in AggRuns : Finalize(r) /\ UNCHANGED ordVars

\* The server before any submission, with every provider enabled.
JobQuiet == JobInitWith(Providers)

\* The configuration of provider p is changed while the server runs
\* (its API key or PROVIDER_*_ENABLED, or its entry in PROVIDERS).
ConfigChange(p) ==
  /\ config' = IF p \in config THEN config \ {p} ELSE config \cup {p}
  /\ UNCHANGED <<enabled, jobResults, runPc, runTier, runId, call, val, raw, lastWriter,
                 nonJobVars>>

\* The server with a configuration that changes at run time.
CfgNext ==
  \/ \E p \in Providers : ConfigChange(p) /\ UNCHANGED ordVars
  \/ \E r \in Runs, tier \in Tiers, id \in JobIds :
       Submit(r, tier, id) /\ UNCHANGED ordVars
  \/ \E r \in Runs, p \in Providers, s \in ScoreSamples :
       ProviderFulfil(r, p, s) /\ UNCHANGED ordVars
  \/ \E r \in Runs, p \in Providers : ProviderReject(r, p) /\ UNCHANGED ordVars
  \/ \E r \in Runs, p \in Providers : ProviderHang(r, p) /\ UNCHANGED ordVars
  \/ \E r \in Runs : Finalize(r) /\ UNCHANGED ordVars

(***************************************************************************)
(* Circuit breaker (resilience/retry.ts 48-104)                             *)
(*                                                                         *)
(* A caller is one invocation of a provider call guarded by the breaker:   *)
(* shouldShortCircuit, then (if admitted) the call, then recordSuccess or  *)
(* recordFailure.  Every Redis command is one step; callers interleave     *)
(* between commands.                                                       *)
(***************************************************************************)

winMs == 60000
thld == 5
halfMs == 60000

CBProviders == {"p1", "p2"}

Callers == {"c1", "c2"}

\* Granularity of the modelled clock, and how far it runs.
TickMs == halfMs \div 2
MaxTicks == 2
StartTime == TickMs

\* Mutant of ThldReached: the comparison is strict.
ThldReachedStrict(n) == n > thld

\* retry.ts 99: if (n >= thld)
ThldReached(n) == n >= thld

\* retry.ts 68: if (!openedAt || (Date.now() - openedAt) > halfMs)
DelayElapsed(openedAt, t) == openedAt = 0 \/ (t - openedAt) > halfMs

\* retry.ts 84: if (state && state !== 'closed')
NotClosed(st) == st # "none" /\ st # "closed"

\* State as the claims read it: an absent state key is a closed circuit.
StateOf(st) == IF st = "none" THEN "closed" ELSE st

CbInitFor(active) ==
  /\ now = StartTime
  /\ cbActive = active
  /\ cbState = [p \in CBProviders |-> "none"]
  /\ cbFails = [p \in CBProviders |-> 0]
  /\ cbFailsExp = [p \in CBProviders |-> 0]
  /\ cbOpenAt = [p \in CBProviders |-> 0]
  /\ cbProbe = [p \in CBProviders |-> FALSE]
  /\ cbProbeExp = [p \in CBProviders |-> 0]
  /\ cpc = [c \in Callers |-> "idle"]
  /\ cprov = [c \in Callers |-> "p1"]
  /\ admit = [c \in Callers |-> "none"]
  /\ streak = [p \in CBProviders |-> 0]
  /\ streakStart = [p \in CBProviders |-> 0]
  /\ openedReal = [p \in CBProviders |-> 0]
  /\ recent = [p \in CBProviders |-> <<>>]

CbInit == CbInitFor({"p1"})

CbQuiet == CbInit

\* A probe of p (admitted after the delay) by a caller other than c, whose
\* outcome has not yet been handed to recordSuccess or recordFailure.
ProbeOutstanding(p, c) ==
  \E d \in Callers \ {c} : cprov[d] = p /\ admit[d] = "probe" /\ cpc[d] = "calling"

\* shouldShortCircuit returns false to c: the call is made.
Admitted(c, how) ==
  /\ cpc' = [cpc EXCEPT ![c] = "calling"]
  /\ admit' = [admit EXCEPT ![c] = how]

\* shouldShortCircuit returns true to c: the call is skipped.
ShortCircuited(c) ==
  /\ cpc' = [cpc EXCEPT ![c] = "idle"]
  /\ admit' = [admit EXCEPT ![c] = "short"]

\* A record handler of c returns.
Recorded(c) ==
  /\ cpc' = [cpc EXCEPT ![c] = "idle"]
  /\ admit' = [admit EXCEPT ![c] = "none"]

\* retry.ts 64-65: GET state; if (state !== 'open') return false
SscGetState(c, p) ==
  /\ cpc[c] = "idle"
  /\ p \in cbActive
  /\ cprov' = [cprov EXCEPT ![c] = p]
  /\ IF cbState[p] # "open"
     THEN Admitted(c, IF ProbeOutstanding(p, c) THEN "overlap" ELSE "normal")
     ELSE /\ cpc' = [cpc EXCEPT ![c] = "ssc_getOpenAt"]
          /\ UNCHANGED admit
  /\ UNCHANGED <<now, cbActive, cbState, cbFails, cbFailsExp, cbOpenAt, cbProbe,
                 cbProbeExp, streak, streakStart, openedReal, recent,
                 nonCbVars>>

\* Mutant of SscGetOpenAt: a short-circuited call is counted as a failure.
SscGetOpenAtCounting(c) ==
  /\ cpc[c] = "ssc_getOpenAt"
  /\ IF DelayElapsed(cbOpenAt[cprov[c]], now)
     THEN /\ cpc' = [cpc EXCEPT ![c] = "ssc_setProbe"]
          /\ UNCHANGED <<admit, cbFails>>
     ELSE /\ ShortCircuited(c)
          /\ cbFails' = [cbFails EXCEPT ![cprov[c]] = @ + 1]
  /\ UNCHANGED <<now, cbActive, cbState, cbFailsExp, cbOpenAt, cbProbe,
                 cbProbeExp, cprov, streak, streakStart, openedReal, recent, nonCbVars>>

\* retry.ts 67-68: GET openAt; the cooldown test
SscGetOpenAt(c) ==
  /\ cpc[c] = "ssc_getOpenAt"
  /\ IF DelayElapsed(cbOpenAt[cprov[c]], now)
     THEN /\ cpc' = [cpc EXCEPT ![c] = "ssc_setProbe"]
          /\ UNCHANGED admit
     ELSE ShortCircuited(c)
  /\ UNCHANGED <<now, cbActive, cbState, cbFails, cbFailsExp, cbOpenAt, cbProbe,
                 cbProbeExp, cprov, streak, streakStart, openedReal, recent,
                 nonCbVars>>

\* retry.ts 70-71: SET probe 1 NX PX halfMs
SscSetProbe(c) ==
  /\ cpc[c] = "ssc_setProbe"
  /\ IF ~cbProbe[cprov[c]]
     THEN /\ cbProbe' = [cbProbe EXCEPT ![cprov[c]] = TRUE]
          /\ cbProbeExp' = [cbProbeExp EXCEPT ![cprov[c]] = now + halfMs]
          /\ cpc' = [cpc EXCEPT ![c] = "ssc_setHalf"]
          /\ UNCHANGED admit
     ELSE /\ ShortCircuited(c)
          /\ UNCHANGED <<cbProbe, cbProbeExp>>
  /\ UNCHANGED <<now, cbActive, cbState, cbFails, cbFailsExp, cbOpenAt, cprov, streak,
                 streakStart, openedReal, recent,
                 nonCbVars>>

\* retry.ts 72-74: SET state half; return false.  The admission is "early" when
\* the state is open and no more than halfMs has passed since it became open.
SscSetHalf(c) ==
  /\ cpc[c] = "ssc_setHalf"
  /\ cbState' = [cbState EXCEPT ![cprov[c]] = "half"]
  /\ openedReal' = [openedReal EXCEPT ![cprov[c]] = 0]
  /\ Admitted(c, IF cbState[cprov[c]] = "open" /\ now - openedReal[cprov[c]] <= halfMs
                 THEN "early" ELSE "probe")
  /\ UNCHANGED <<now, cbActive, cbFails, cbFailsExp, cbOpenAt, cbProbe, cbProbeExp,
                 cprov, streak, streakStart, recent,
                 nonCbVars>>

\* The call succeeded; recordSuccess, retry.ts 83-84: GET state
RsGetState(c) ==
  /\ cpc[c] = "calling"
  /\ cpc' = [cpc EXCEPT ![c] = IF NotClosed(cbState[cprov[c]])
                               THEN "rs_setClosed" ELSE "rs_delFail"]
  /\ UNCHANGED <<now, cbActive, cbState, cbFails, cbFailsExp, cbOpenAt, cbProbe,
                 cbProbeExp, cprov, admit, streak, streakStart, openedReal, recent,
                 nonCbVars>>

\* retry.ts 85: SET state closed
RsSetClosed(c) ==
  /\ cpc[c] = "rs_setClosed"
  /\ cbState' = [cbState EXCEPT ![cprov[c]] = "closed"]
  /\ openedReal' = [openedReal EXCEPT ![cprov[c]] = 0]
  /\ cpc' = [cpc EXCEPT ![c] = "rs_delAll"]
  /\ UNCHANGED <<now, cbActive, cbFails, cbFailsExp, cbOpenAt, cbProbe, cbProbeExp,
                 cprov, admit, streak, streakStart, recent,
                 nonCbVars>>

\* retry.ts 86: DEL fails openAt probe
RsDelAll(c) ==
  /\ cpc[c] = "rs_delAll"
  /\ cbFails' = [cbFails EXCEPT ![cprov[c]] = 0]
  /\ cbFailsExp' = [cbFailsExp EXCEPT ![cprov[c]] = 0]
  /\ cbOpenAt' = [cbOpenAt EXCEPT ![cprov[c]] = 0]
  /\ cbProbe' = [cbProbe EXCEPT ![cprov[c]] = FALSE]
  /\ cbProbeExp' = [cbProbeExp EXCEPT ![cprov[c]] = 0]
  /\ streak' = [streak EXCEPT ![cprov[c]] = 0]
  /\ streakStart' = [streakStart EXCEPT ![cprov[c]] = 0]
  /\ recent' = [recent EXCEPT ![cprov[c]] = <<>>]
  /\ Recorded(c)
  /\ UNCHANGED <<now, cbActive, cbState, cprov, openedReal, nonCbVars>>

\* retry.ts 90: DEL fails
RsDelFail(c) ==
  /\ cpc[c] = "rs_delFail"
  /\ cbFails' = [cbFails EXCEPT ![cprov[c]] = 0]
  /\ cbFailsExp' = [cbFailsExp EXCEPT ![cprov[c]] = 0]
  /\ streak' = [streak EXCEPT ![cprov[c]] = 0]
  /\ streakStart' = [streakStart EXCEPT ![cprov[c]] = 0]
  /\ recent' = [recent EXCEPT ![cprov[c]] = <<>>]
  /\ Recorded(c)
  /\ UNCHANGED <<now, cbActive, cbState, cbOpenAt, cbProbe, cbProbeExp, cprov,
                 openedReal, nonCbVars>>

\* recordFailure after INCR returned n (and after PEXPIRE when n = 1): line 99.
AfterCount(c, n) ==
  IF ThldReached(n)
  THEN /\ cpc' = [cpc EXCEPT ![c] = "rf_setOpen"]
       /\ UNCHANGED admit
  ELSE Recorded(c)

\* The call failed; recordFailure, retry.ts 96-97: n = INCR fails
RfIncr(c) ==
  /\ cpc[c] = "calling"
  /\ LET p == cprov[c]
         n == cbFails[p] + 1
     IN /\ cbFails' = [cbFails EXCEPT ![p] = n]
        /\ streak' = [streak EXCEPT ![p] = IF @ > thld THEN @ ELSE @ + 1]
        /\ streakStart' = [streakStart EXCEPT ![p] = IF streak[p] = 0 THEN now ELSE @]
        /\ recent' = [recent EXCEPT ![p] =
                        IF Len(@) < thld THEN Append(@, now) ELSE Append(Tail(@), now)]
        /\ IF n = 1
           THEN /\ cpc' = [cpc EXCEPT ![c] = "rf_pexpire"]
                /\ UNCHANGED admit
           ELSE AfterCount(c, n)
  /\ UNCHANGED <<now, cbActive, cbState, cbFailsExp, cbOpenAt, cbProbe, cbProbeExp,
                 cprov, openedReal, nonCbVars>>

\* retry.ts 97: PEXPIRE fails winMs (a no-op on an absent key)
RfPexpire(c) ==
  /\ cpc[c] = "rf_pexpire"
  /\ cbFailsExp' = [cbFailsExp EXCEPT ![cprov[c]] =
                      IF cbFails[cprov[c]] > 0 THEN now + winMs ELSE @]
  /\ AfterCount(c, 1)
  /\ UNCHANGED <<now, cbActive, cbState, cbFails, cbOpenAt, cbProbe, cbProbeExp, cprov,
                 streak, streakStart, openedReal, recent,
                 nonCbVars>>

\* Mutant of RfSetOpen: the state key does not carry the provider's name.
RfSetOpenShared(c) ==
  /\ cpc[c] = "rf_setOpen"
  /\ cbState' = [p \in CBProviders |-> "open"]
  /\ openedReal' = [p \in CBProviders |-> IF cbState[p] = "open" THEN openedReal[p] ELSE now]
  /\ cpc' = [cpc EXCEPT ![c] = "rf_setOpenAt"]
  /\ UNCHANGED <<now, cbActive, cbFails, cbFailsExp, cbOpenAt, cbProbe, cbProbeExp,
                 cprov, admit, streak, streakStart, recent,
                 nonCbVars>>

\* retry.ts 100: SET state open
RfSetOpen(c) ==
  /\ cpc[c] = "rf_setOpen"
  /\ cbState' = [cbState EXCEPT ![cprov[c]] = "open"]
  /\ openedReal' = [openedReal EXCEPT ![cprov[c]] =
                      IF cbState[cprov[c]] = "open" THEN @ ELSE now]
  /\ cpc' = [cpc EXCEPT ![c] = "rf_setOpenAt"]
  /\ UNCHANGED <<now, cbActive, cbFails, cbFailsExp, cbOpenAt, cbProbe, cbProbeExp,
                 cprov, admit, streak, streakStart, recent,
                 nonCbVars>>

\* retry.ts 101: SET openAt Date.now()
RfSetOpenAt(c) ==
  /\ cpc[c] = "rf_setOpenAt"
  /\ cbOpenAt' = [cbOpenAt EXCEPT ![cprov[c]] = now]
  /\ Recorded(c)
  /\ UNCHANGED <<now, cbActive, cbState, cbFails, cbFailsExp, cbProbe, cbProbeExp,
                 cprov, streak, streakStart, openedReal, recent,
                 nonCbVars>>

\* Time passes; Redis drops the keys whose TTL has run out.
CbTick ==
  /\ now < StartTime + MaxTicks * TickMs
  /\ now' = now + TickMs
  /\ LET failsGone(p) == cbFailsExp[p] # 0 /\ cbFailsExp[p] <= now'
         probeGone(p) == cbProbe[p] /\ cbProbeExp[p] <= now'
     IN /\ cbFails' = [p \in CBProviders |-> IF failsGone(p) THEN 0 ELSE cbFails[p]]
        /\ cbFailsExp' = [p \in CBProviders |-> IF failsGone(p) THEN 0 ELSE cbFailsExp[p]]
        /\ cbProbe' = [p \in CBProviders |-> IF probeGone(p) THEN FALSE ELSE cbProbe[p]]
        /\ cbProbeExp' = [p \in CBProviders |-> IF probeGone(p) THEN 0 ELSE cbProbeExp[p]]
  /\ UNCHANGED <<cbActive, cbState, cbOpenAt, cpc, cprov, admit, streak, streakStart,
                 openedReal, recent,
                 nonCbVars>>

CbNext ==
  \/ \E c \in Callers, p \in CBProviders : SscGetState(c, p)
  \/ \E c \in Callers : SscGetOpenAt(c)
  \/ \E c \in Callers : SscSetProbe(c)
  \/ \E c \in Callers : SscSetHalf(c)
  \/ \E c \in Callers : RsGetState(c)
  \/ \E c \in Callers : RsSetClosed(c)
  \/ \E c \in Callers : RsDelAll(c)
  \/ \E c \in Callers : RsDelFail(c)
  \/ \E c \in Callers : RfIncr(c)
  \/ \E c \in Callers : RfPexpire(c)
  \/ \E c \in Callers : RfSetOpen(c)
  \/ \E c \in Callers : RfSetOpenAt(c)
  \/ CbTick

\* Time in steps longer than halfMs, for runs that outlast the half-open delay.
LeapMs == halfMs + TickMs

MaxLeaps == 2

Horizon == StartTime + MaxLeaps * LeapMs

\* Mutant of CbLeap: the probe marker is stored without a TTL (no PX halfMs).
CbLeapProbeKept ==
  /\ now < Horizon
  /\ now' = now + LeapMs
  /\ LET failsGone(p) == cbFailsExp[p] # 0 /\ cbFailsExp[p] <= now'
     IN /\ cbFails' = [p \in CBProviders |-> IF failsGone(p) THEN 0 ELSE cbFails[p]]
        /\ cbFailsExp' = [p \in CBProviders |-> IF failsGone(p) THEN 0 ELSE cbFailsExp[p]]
  /\ UNCHANGED <<cbActive, cbState, cbOpenAt, cbProbe, cbProbeExp, cpc, cprov, admit,
                 streak, streakStart, openedReal, recent,
                 nonCbVars>>

\* LeapMs pass; Redis drops the keys whose TTL (PX winMs, PX halfMs) has run out.
CbLeap ==
  /\ now < Horizon
  /\ now' = now + LeapMs
  /\ LET failsGone(p) == cbFailsExp[p] # 0 /\ cbFailsExp[p] <= now'
         probeGone(p) == cbProbe[p] /\ cbProbeExp[p] <= now'
     IN /\ cbFails' = [p \in CBProviders |-> IF failsGone(p) THEN 0 ELSE cbFails[p]]
        /\ cbFailsExp' = [p \in CBProviders |-> IF failsGone(p) THEN 0 ELSE cbFailsExp[p]]
        /\ cbProbe' = [p \in CBProviders |-> IF probeGone(p) THEN FALSE ELSE cbProbe[p]]
        /\ cbProbeExp' = [p \in CBProviders |-> IF probeGone(p) THEN 0 ELSE cbProbeExp[p]]
  /\ UNCHANGED <<cbActive, cbState, cbOpenAt, cpc, cprov, admit, streak, streakStart,
                 openedReal, recent,
                 nonCbVars>>

\* An admitted caller goes away without calling recordSuccess or recordFailure:
\* shouldShortCircuit (retry.ts 63-80) leaves nothing behind that makes it report.
CbAbandon(c) ==
  /\ cpc[c] = "calling"
  /\ cpc' = [cpc EXCEPT ![c] = "idle"]
  /\ admit' = [admit EXCEPT ![c] = IF @ \in {"probe", "early"} THEN "lost" ELSE "none"]
  /\ UNCHANGED <<now, cbActive, cbState, cbFails, cbFailsExp, cbOpenAt, cbProbe,
                 cbProbeExp, cprov, streak, streakStart, openedReal, recent,
                 nonCbVars>>

\* The callers that report the outcome of their calls; the others go away
\* after every admission.
Reporters == {"c1"}

CbLiveNext ==
  \/ \E c \in Callers, p \in CBProviders : SscGetState(c, p)
  \/ \E c \in Callers : SscGetOpenAt(c)
  \/ \E c \in Callers : SscSetProbe(c)
  \/ \E c \in Callers : SscSetHalf(c)
  \/ \E c \in Reporters : RsGetState(c)
  \/ \E c \in Reporters : RsSetClosed(c)
  \/ \E c \in Reporters : RsDelAll(c)
  \/ \E c \in Reporters : RsDelFail(c)
  \/ \E c \in Reporters : RfIncr(c)
  \/ \E c \in Reporters : RfPexpire(c)
  \/ \E c \in Reporters : RfSetOpen(c)
  \/ \E c \in Reporters : RfSetOpenAt(c)
  \/ \E c \in Callers : CbAbandon(c)
  \/ CbLeap

\* With both providers in use the clock stops one leap earlier.
Cb2Leap ==
  /\ now + LeapMs < Horizon
  /\ CbLeap

\* The provider each caller calls when both providers are in use.
ProviderOf == [c \in Callers |-> IF c = "c1" THEN "p1" ELSE "p2"]

Cb2Next ==
  \/ \E c \in Callers : SscGetState(c, ProviderOf[c])
  \/ \E c \in Callers : SscGetOpenAt(c)
  \/ \E c \in Callers : SscSetProbe(c)
  \/ \E c \in Callers : SscSetHalf(c)
  \/ \E c \in Callers : RsGetState(c)
  \/ \E c \in Callers : RsSetClosed(c)
  \/ \E c \in Callers : RsDelAll(c)
  \/ \E c \in Callers : RsDelFail(c)
  \/ \E c \in Callers : RfIncr(c)
  \/ \E c \in Callers : RfPexpire(c)
  \/ \E c \in Callers : RfSetOpen(c)
  \/ \E c \in Callers : RfSetOpenAt(c)
  \/ Cb2Leap

(***************************************************************************)
(* withRetry (resilience/retry.ts 1-47)                                    *)
(***************************************************************************)

\* Largest attempts argument tried.
MaxAttempts == 3

\* (minMs, maxMs) arguments tried.
BackoffArgs == {<<1, 4>>, <<5, 12>>, <<10, 10>>}

NoErr == [status |-> -1, msg |-> <<>>]

NoOut == [kind |-> "none", value |-> "none", err |-> NoErr]

\* Errors fn may reject with: e.status and the words of e.message.
ErrSamples ==
  {[status |-> 429, msg |-> <<"too", "many", "requests">>],
   [status |-> 503, msg |-> <<"service", "unavailable">>],
   [status |-> 400, msg |-> <<"bad", "request">>],
   [status |-> 401, msg |-> <<"unauthorized">>],
   [status |-> 0, msg |-> <<"grok", "timeout", "after", "15000ms">>],
   [status |-> 0, msg |-> <<"grok", "api", "error:", "429">>],
   [status |-> 0, msg |-> <<"grok", "api", "error:", "401">>]}

\* Values fn may resolve with.
ValueSamples == {"v1", "v2"}

\* retry.ts 46: /ECONN|ETIMEDOUT|aborted|timeout/i.test(msg), on the words of msg.
MsgRetryable(msg) ==
  \E i \in 1..Len(msg) : msg[i] \in {"econn", "econnreset", "econnrefused", "etimedout",
                                     "aborted", "timeout"}

\* retry.ts 35-47
DefaultCanRetry(e) ==
  \/ e.status = 429
  \/ e.status >= 500
  \/ MsgRetryable(e.msg)

RECURSIVE Pow2(_)
Pow2(k) == IF k = 0 THEN 1 ELSE 2 * Pow2(k - 1)

Min2(a, b) == IF a < b THEN a ELSE b

\* Mutant of BackoffBase: the delay is not capped at max.
BackoffBaseUncapped(attempt, min, max) == min * Pow2(attempt)

\* retry.ts 6: Math.min(max, min * Math.pow(2, attempt))
BackoffBase(attempt, min, max) == Min2(max, min * Pow2(attempt))

\* retry.ts 7-8: Math.floor(base + Math.random() * base * 0.2), Math.random() in [0, 1)
ExpBackoff(attempt, min, max) ==
  LET base == BackoffBase(attempt, min, max)
  IN {d \in base..(base + (base \div 5)) : 5 * (d - base) < base \/ d = base}

\* retry.ts 27: i === attempts
LastAttempt(i, attempts) == i = attempts

RtInit ==
  /\ rtPc = "idle"
  /\ rtAttempts = 0
  /\ rtMin = 0
  /\ rtMax = 0
  /\ rtI = 0
  /\ rtLastErr = NoErr
  /\ rtDelay = 0
  /\ rtOut = NoOut
  /\ rtCalls = 0
  /\ rtFirstErr = NoErr

RtQuiet == RtInit

\* withRetry(fn, attempts, minMs, maxMs, canRetry) up to the first await:
\* i = 0, 0 <= attempts, fn() is invoked (lines 20-24).
RtStart(attempts, mm) ==
  /\ rtPc = "idle"
  /\ rtAttempts' = attempts
  /\ rtMin' = mm[1]
  /\ rtMax' = mm[2]
  /\ rtI' = 0
  /\ rtCalls' = 1
  /\ rtPc' = "awaiting"
  /\ rtLastErr' = NoErr
  /\ rtOut' = NoOut
  /\ rtFirstErr' = NoErr
  /\ UNCHANGED <<rtDelay, nonRtVars>>

\* fn() resolves: return await fn()
RtResolve(v) ==
  /\ rtPc = "awaiting"
  /\ rtOut' = [kind |-> "returned", value |-> v, err |-> NoErr]
  /\ rtPc' = "idle"
  /\ UNCHANGED <<rtAttempts, rtMin, rtMax, rtI, rtLastErr, rtDelay, rtCalls, rtFirstErr,
                 nonRtVars>>

\* Mutant of RtReject: the error of the first attempt is thrown.
RtRejectFirst(e) ==
  /\ rtPc = "awaiting"
  /\ rtLastErr' = e
  /\ rtFirstErr' = IF rtCalls = 1 THEN e ELSE rtFirstErr
  /\ IF LastAttempt(rtI, rtAttempts) \/ ~DefaultCanRetry(e)
     THEN /\ rtOut' = [kind |-> "thrown", value |-> "none", err |-> rtFirstErr']
          /\ rtPc' = "idle"
          /\ UNCHANGED rtDelay
     ELSE /\ \E d \in ExpBackoff(rtI, rtMin, rtMax) : rtDelay' = d
          /\ rtPc' = "sleeping"
          /\ UNCHANGED rtOut
  /\ UNCHANGED <<rtAttempts, rtMin, rtMax, rtI, rtCalls, nonRtVars>>

\* fn() rejects with e: the catch block, lines 25-28
RtReject(e) ==
  /\ rtPc = "awaiting"
  /\ rtLastErr' = e
  /\ rtFirstErr' = IF rtCalls = 1 THEN e ELSE rtFirstErr
  /\ IF LastAttempt(rtI, rtAttempts) \/ ~DefaultCanRetry(e)
     THEN /\ rtOut' = [kind |-> "thrown", value |-> "none", err |-> e]
          /\ rtPc' = "idle"
          /\ UNCHANGED rtDelay
     ELSE /\ \E d \in ExpBackoff(rtI, rtMin, rtMax) : rtDelay' = d
          /\ rtPc' = "sleeping"
          /\ UNCHANGED rtOut
  /\ UNCHANGED <<rtAttempts, rtMin, rtMax, rtI, rtCalls, nonRtVars>>

\* The sleep ends: i++, i <= attempts, fn() is invoked again (lines 22-24);
\* line 32 when the loop is left.
RtWake ==
  /\ rtPc = "sleeping"
  /\ rtI' = rtI + 1
  /\ rtDelay' = 0
  /\ IF rtI + 1 <= rtAttempts
     THEN /\ rtCalls' = rtCalls + 1
          /\ rtPc' = "awaiting"
          /\ UNCHANGED rtOut
     ELSE /\ rtOut' = [kind |-> "thrown", value |-> "none", err |-> rtLastErr]
          /\ rtPc' = "idle"
          /\ UNCHANGED rtCalls
  /\ UNCHANGED <<rtAttempts, rtMin, rtMax, rtLastErr, rtFirstErr, nonRtVars>>

RtNext ==
  \/ \E attempts \in 0..MaxAttempts, mm \in BackoffArgs : RtStart(attempts, mm)
  \/ \E v \in ValueSamples : RtResolve(v)
  \/ \E e \in ErrSamples : RtReject(e)
  \/ RtWake

(***************************************************************************)
(* Tenant rate limiter (modules/analyzer/tenant-rl.ts 1-17)                *)
(*                                                                         *)
(* One tenant; every Redis command is one step.                            *)
(***************************************************************************)

RlCallers == {"t1", "t2", "t3"}

\* The tenant's limitPerMin.
RlLimit == 2

\* The key's count is not driven beyond this in the model.
MaxCount == 5

\* expire(key, 60), in ms
RlWindowMs == 60 * 1000

RlTickMs == RlWindowMs \div 2
MaxRlTicks == 4

\* Mutant of IncrReply: the value before the increment is returned.
IncrReplyOld(v) == v

\* The reply of INCR on a key holding v (0 when absent).
IncrReply(v) == v + 1

\* Mutant of RateAdmit: the limit itself is refused.
RateAdmitStrict(count, limit) == count < limit

\* tenant-rl.ts 16: return count <= limitPerMin
RateAdmit(count, limit) == count <= limit

NoRet == [val |-> "none", ord |-> 0, win |-> 0]

RlInit ==
  /\ rlNow = RlTickMs
  /\ rlCount = 0
  /\ rlExp = 0
  /\ rlPc = [c \in RlCallers |-> "idle"]
  /\ rlGot = [c \in RlCallers |-> 0]
  /\ winCalls = 0
  /\ winTrue = 0
  /\ rlWin = 0
  /\ rlRet = [c \in RlCallers |-> NoRet]

RlQuiet == RlInit

\* checkTenantRate returns to c; ord is the call's position in the key's lifetime.
RlReturn(c, count, ord) ==
  /\ rlPc' = [rlPc EXCEPT ![c] = "idle"]
  /\ rlGot' = [rlGot EXCEPT ![c] = 0]
  /\ rlRet' = [rlRet EXCEPT ![c] = [val |-> IF RateAdmit(count, RlLimit) THEN "true" ELSE "false",
                                     ord |-> ord, win |-> rlWin]]
  /\ winTrue' = IF RateAdmit(count, RlLimit) THEN winTrue + 1 ELSE winTrue

\* tenant-rl.ts 9: const count = await redis.incr(key)
RlIncr(c) ==
  /\ rlPc[c] = "idle"
  /\ rlCount < MaxCount
  /\ rlCount' = rlCount + 1
  /\ winCalls' = winCalls + 1
  /\ LET count == IncrReply(rlCount)
     IN IF count = 1
        THEN /\ rlPc' = [rlPc EXCEPT ![c] = "expire"]
             /\ rlGot' = [rlGot EXCEPT ![c] = count]
             /\ rlRet' = [rlRet EXCEPT ![c] = [val |-> "pending", ord |-> winCalls + 1,
                                                win |-> rlWin]]
             /\ UNCHANGED winTrue
        ELSE RlReturn(c, count, winCalls + 1)
  /\ UNCHANGED <<rlNow, rlExp, rlWin, nonRlVars>>

\* tenant-rl.ts 12-16: await redis.expire(key, 60); return count <= limitPerMin
RlExpire(c) ==
  /\ rlPc[c] = "expire"
  /\ rlExp' = IF rlCount > 0 THEN rlNow + RlWindowMs ELSE rlExp
  /\ RlReturn(c, rlGot[c], rlRet[c].ord)
  /\ UNCHANGED <<rlNow, rlCount, winCalls, rlWin, nonRlVars>>

\* Time passes; Redis drops the key when its TTL has run out.
RlTick ==
  /\ rlNow < RlTickMs + MaxRlTicks * RlTickMs
  /\ rlNow' = rlNow + RlTickMs
  /\ IF rlExp # 0 /\ rlExp <= rlNow'
     THEN /\ rlCount' = 0
          /\ rlExp' = 0
          /\ winCalls' = 0
          /\ winTrue' = 0
          /\ rlWin' = rlWin + 1
     ELSE UNCHANGED <<rlCount, rlExp, winCalls, winTrue, rlWin>>
  /\ UNCHANGED <<rlPc, rlGot, rlRet, nonRlVars>>

RlNext ==
  \/ \E c \in RlCallers : RlIncr(c)
  \/ \E c \in RlCallers : RlExpire(c)
  \/ RlTick

(***************************************************************************)
(* Queue-based API: POST /analyze, GET /results/:id (analyzer.controller), *)
(* the BullMQ worker (queue/index.ts) and AIAnalyzerService.analyze        *)
(***************************************************************************)

\* Jobs added in a behaviour.
MaxQJobs == 2

\* Job ids handed out by BullMQ, in order, and row ids generated by the database.
QJobIdSeq == <<"1", "2", "3">>
RowIdSeq == <<"ck1", "ck2", "ck3">>
QJobIds == {QJobIdSeq[i] : i \in 1..Len(QJobIdSeq)}
RowIds == {RowIdSeq[i] : i \in 1..Len(RowIdSeq)}

\* Request bodies: input is a string of at least 2 characters.
QInputs == {<<"A", "b">>, <<"a", "b", " ">>, <<"c", "d">>}

\* Character codes (charCodeAt(0)).
CharCode(ch) ==
  CASE ch = " " -> 32
    [] ch = "A" -> 65
    [] ch = "a" -> 97
    [] ch = "b" -> 98
    [] ch = "c" -> 99
    [] ch = "d" -> 100

ToLowerChar(ch) == IF ch = "A" THEN "a" ELSE ch

ToLower(str) == [i \in 1..Len(str) |-> ToLowerChar(str[i])]

RECURSIVE TrimLeft(_)
TrimLeft(str) == IF str # <<>> /\ Head(str) = " " THEN TrimLeft(Tail(str)) ELSE str

RECURSIVE TrimRight(_)
TrimRight(str) ==
  IF str # <<>> /\ str[Len(str)] = " " THEN TrimRight(SubSeq(str, 1, Len(str) - 1)) ELSE str

\* The normal form of an input: case-folded and trimmed.
Normalize(str) == ToLower(TrimLeft(TrimRight(str)))

\* part_005 16: `visibility:${input}`
CacheKey(input) == <<"visibility:">> \o input

CacheKeys == {CacheKey(i) : i \in QInputs}

\* env.CACHE_TTL, in seconds
CACHE_TTL == 3600

QTickS == CACHE_TTL \div 2
MaxQTicks == 2

\* An absent score (undefined in the service, null in the row).
NoScore == -1

\* What checkChatGPT may resolve with.
GptSamples == {41}

NoEntry == [present |-> FALSE]
NoRow == [present |-> FALSE]
NoJobQ == [state |-> "none"]

RECURSIVE SumCodes(_)
SumCodes(str) == IF str = <<>> THEN 0 ELSE CharCode(Head(str)) + SumCodes(Tail(str))

\* part_005 71-76
CheckGoogle(input) == SumCodes(input) % 100

\* part_005 33-38: the combined score, as the fraction num / den
Combined(gpt, google) ==
  IF gpt # NoScore \/ google # NoScore
  THEN LET w1 == IF gpt # NoScore THEN 1 ELSE 0
           w2 == IF google # NoScore THEN 1 ELSE 0
           totalW == IF w1 + w2 # 0 THEN w1 + w2 ELSE 1
           g1 == IF gpt # NoScore THEN gpt ELSE 0
           g2 == IF google # NoScore THEN google ELSE 0
       IN [defined |-> TRUE, num |-> g1 + g2, den |-> totalW]
  ELSE [defined |-> FALSE, num |-> 0, den |-> 1]

\* part_005 23-25
PendingRow(id, input) ==
  [present |-> TRUE, id |-> id, input |-> input, status |-> "PENDING",
   chatGPTScore |-> NoScore, googleScore |-> NoScore,
   combinedScore |-> Combined(NoScore, NoScore), error |-> "null"]

\* part_005 40-51
UpdatedRow(row, gpt, google) ==
  LET combined == Combined(gpt, google)
      status == IF combined.defined THEN "COMPLETED" ELSE "FAILED"
  IN [row EXCEPT !.chatGPTScore = gpt, !.googleScore = google,
                 !.combinedScore = combined, !.status = status,
                 !.error = IF status = "FAILED" THEN "All providers failed" ELSE "null"]

\* JSON.parse(JSON.stringify(row)) on the row's strings, numbers and nulls.
JsonRoundTrip(row) ==
  [present |-> TRUE, id |-> row.id, input |-> row.input, status |-> row.status,
   chatGPTScore |-> row.chatGPTScore, googleScore |-> row.googleScore,
   combinedScore |-> row.combinedScore, error |-> row.error]

QInit ==
  /\ qNow = 0
  /\ qCache = [k \in CacheKeys |-> NoEntry]
  /\ qDb = [id \in RowIds |-> NoRow]
  /\ qRows = 0
  /\ qJobs = [j \in QJobIds |-> NoJobQ]
  /\ qAdded = 0
  /\ wPc = [j \in QJobIds |-> "none"]
  /\ wRow = [j \in QJobIds |-> "none"]
  /\ wGpt = [j \in QJobIds |-> NoScore]
  /\ qCalls = [j \in QJobIds |-> 0]
  /\ qDoneAt = [j \in QJobIds |-> 0]
  /\ wPrior = [j \in QJobIds |-> {}]

QQuiet == QInit

\* A cache entry Redis still serves.
CacheLive(e, t) == e.present /\ t < e.exp

\* The job a job id names once added.
QJob(input) == [state |-> "waiting", input |-> input, ret |-> NoRow]

\* analyzer.controller.ts 15-19: POST /analyze adds a job and answers 202 {jobId}
QPost(input) ==
  /\ qAdded < MaxQJobs
  /\ LET id == QJobIdSeq[qAdded + 1]
     IN /\ qJobs' = [qJobs EXCEPT ![id] = QJob(input)]
        /\ wPc' = [wPc EXCEPT ![id] = "queued"]
  /\ qAdded' = qAdded + 1
  /\ UNCHANGED <<qNow, qCache, qDb, qRows, wRow, wGpt, qCalls, qDoneAt, wPrior, nonQVars>>

\* The processor's return value becomes the job's.
QComplete(j, value) ==
  /\ qJobs' = [qJobs EXCEPT ![j].state = "completed", ![j].ret = value]
  /\ qDoneAt' = [qDoneAt EXCEPT ![j] = qNow]

\* queue/index.ts 18-20 and part_005 16-20: the worker takes the job and
\* analyze reads the cache
WCacheGet(j) ==
  /\ wPc[j] = "queued"
  /\ LET input == qJobs[j].input
         cached == qCache[CacheKey(input)]
     IN /\ wPrior' = [wPrior EXCEPT ![j] =
                        {k \in QJobIds : /\ qJobs[k].state = "completed"
                                         /\ Normalize(qJobs[k].input) = Normalize(input)
                                         /\ qNow < qDoneAt[k] + CACHE_TTL}]
        /\ IF CacheLive(cached, qNow)
           THEN /\ QComplete(j, cached.val)
                /\ wPc' = [wPc EXCEPT ![j] = "done"]
           ELSE /\ qJobs' = [qJobs EXCEPT ![j].state = "active"]
                /\ wPc' = [wPc EXCEPT ![j] = "create"]
                /\ UNCHANGED qDoneAt
  /\ UNCHANGED <<qNow, qCache, qDb, qRows, qAdded, wRow, wGpt, qCalls, nonQVars>>

\* part_005 23-31: the row is created PENDING, then both checks are started
WCreate(j) ==
  /\ wPc[j] = "create"
  /\ LET id == RowIdSeq[qRows + 1]
     IN /\ qDb' = [qDb EXCEPT ![id] = PendingRow(id, qJobs[j].input)]
        /\ wRow' = [wRow EXCEPT ![j] = id]
  /\ qRows' = qRows + 1
  /\ qCalls' = [qCalls EXCEPT ![j] = @ + 1]
  /\ wPc' = [wPc EXCEPT ![j] = "checks"]
  /\ UNCHANGED <<qNow, qCache, qJobs, qAdded, wGpt, qDoneAt, wPrior, nonQVars>>

\* part_005 28-31: checkChatGPT settles (gpt = NoScore: it rejected)
WChecks(j, gpt) ==
  /\ wPc[j] = "checks"
  /\ wGpt' = [wGpt EXCEPT ![j] = gpt]
  /\ wPc' = [wPc EXCEPT ![j] = "update"]
  /\ UNCHANGED <<qNow, qCache, qDb, qRows, qJobs, qAdded, wRow, qCalls, qDoneAt, wPrior,
                 nonQVars>>

\* part_005 33-51
WUpdate(j) ==
  /\ wPc[j] = "update"
  /\ qDb' = [qDb EXCEPT ![wRow[j]] = UpdatedRow(@, wGpt[j], CheckGoogle(qJobs[j].input))]
  /\ wPc' = [wPc EXCEPT ![j] = "cacheSet"]
  /\ UNCHANGED <<qNow, qCache, qRows, qJobs, qAdded, wRow, wGpt, qCalls, qDoneAt, wPrior,
                 nonQVars>>

\* part_005 53-54: the row read at the update is cached and returned
WCacheSet(j) ==
  /\ wPc[j] = "cacheSet"
  /\ LET updated == qDb[wRow[j]]
     IN /\ qCache' = [qCache EXCEPT ![CacheKey(qJobs[j].input)] =
                        [present |-> TRUE, val |-> JsonRoundTrip(updated),
                         exp |-> qNow + CACHE_TTL]]
        /\ QComplete(j, updated)
  /\ wPc' = [wPc EXCEPT ![j] = "done"]
  /\ UNCHANGED <<qNow, qDb, qRows, qAdded, wRow, wGpt, qCalls, wPrior, nonQVars>>

\* Time passes; Redis drops the entries whose EX has run out.
QTick ==
  /\ qNow < MaxQTicks * QTickS
  /\ qNow' = qNow + QTickS
  /\ qCache' = [k \in CacheKeys |-> IF CacheLive(qCache[k], qNow') THEN qCache[k] ELSE NoEntry]
  /\ UNCHANGED <<qDb, qRows, qJobs, qAdded, wPc, wRow, wGpt, qCalls, qDoneAt, wPrior,
                 nonQVars>>

\* analyzer.controller.ts 21-26: GET /results/:id
GetResultsQ(id) ==
  LET record == IF id \in RowIds THEN qDb[id] ELSE NoRow
  IN IF ~record.present
     THEN [code |-> 404, status |-> "pending", result |-> NoRow]
     ELSE [code |-> 200, status |-> record.status, result |-> record]

QNext ==
  \/ \E input \in QInputs : QPost(input)
  \/ \E j \in QJobIds : WCacheGet(j)
  \/ \E j \in QJobIds : WCreate(j)
  \/ \E j \in QJobIds, gpt \in GptSamples \cup {NoScore} : WChecks(j, gpt)
  \/ \E j \in QJobIds : WUpdate(j)
  \/ \E j \in QJobIds : WCacheSet(j)
  \/ QTick

(***************************************************************************)
(* AnalyzerService.analyzeWithOpenAI (Nest application)                    *)
(*                                                                         *)
(* One user, one invocation at a time; the change of day is not modelled.  *)
(***************************************************************************)

\* brandName arguments.
AsBrands == {<<"A", "b">>, <<"a", "b">>, <<"c", "d">>}

\* line 35: the part of the cache key after "analysis:"
AsKey(brandName) == ToLower(brandName)

AsKeys == {AsKey(b) : b \in AsBrands}

AsPlans == {"FREE", "PRO", "ENTERPRISE"}

\* The user's rows of today are not driven beyond this in the model.
MaxAsCount == 6

FreeLimit == 5
ProLimit == 100
\* Number.MAX_SAFE_INTEGER (2^53 - 1), which no count reaches; represented by
\* the largest integer TLC handles.
EnterpriseLimit == 2147483647

\* checkRateLimits, lines 185-191
AsLimit(plan) ==
  IF plan = "PRO" THEN ProLimit
  ELSE IF plan = "ENTERPRISE" THEN EnterpriseLimit
  ELSE FreeLimit

\* checkRateLimits, line 193: analysesCount >= limit
QuotaReached(count, plan) == count >= AsLimit(plan)

NoAsOut == [kind |-> "none", chatgptScore |-> -1, googleScore |-> -1]

\* (chatgpt_score, google_score) pairs parsed from OpenAI's answer.
OpenAIScores == {<<70, 40>>}

\* getFallbackResult, lines 200-201: Math.floor(Math.random() * 40) + 60
FallbackScores == {60, 99}

AsInit ==
  /\ asCount = 0
  /\ asPlan \in AsPlans
  /\ asCached = [k \in AsKeys |-> NoAsOut]
  /\ asPc = "idle"
  /\ asBrand = <<>>
  /\ asOut = NoAsOut
  /\ asCalls = 0
  /\ asLimited = FALSE

AsQuiet ==
  /\ asCount = 0
  /\ asPlan = "FREE"
  /\ asCached = [k \in AsKeys |-> NoAsOut]
  /\ asPc = "idle"
  /\ asBrand = <<>>
  /\ asOut = NoAsOut
  /\ asCalls = 0
  /\ asLimited = FALSE

\* analyzeWithOpenAI(brandName, userId) is invoked (line 29)
AsStart(brandName) ==
  /\ asPc = "idle"
  /\ asCount < MaxAsCount
  /\ asPc' = "rate"
  /\ asBrand' = brandName
  /\ asOut' = NoAsOut
  /\ asCalls' = 0
  /\ asLimited' = FALSE
  /\ UNCHANGED <<asCount, asPlan, asCached, nonAsVars>>

\* line 32 and lines 158-196: checkRateLimits; found is whether the user row exists
AsCheckRateLimits(found) ==
  /\ asPc = "rate"
  /\ IF ~found
     THEN /\ asPc' = "catch"
          /\ UNCHANGED asLimited
     ELSE IF QuotaReached(asCount, asPlan)
     THEN /\ asPc' = "catch"
          /\ asLimited' = TRUE
     ELSE /\ asPc' = "cache"
          /\ UNCHANGED asLimited
  /\ UNCHANGED <<asCount, asPlan, asCached, asBrand, asOut, asCalls, nonAsVars>>

\* lines 35-41: the cache lookup; lines 44-47: the request to OpenAI is made
AsCacheGet ==
  /\ asPc = "cache"
  /\ LET cachedResult == asCached[AsKey(asBrand)]
     IN IF cachedResult.kind # "none"
        THEN /\ asOut' = [cachedResult EXCEPT !.kind = "cached"]
             /\ asPc' = "idle"
             /\ UNCHANGED asCalls
        ELSE /\ asPc' = "openai"
             /\ asCalls' = asCalls + 1
             /\ UNCHANGED asOut
  /\ UNCHANGED <<asCount, asPlan, asCached, asBrand, asLimited, nonAsVars>>

\* lines 47-73: the request settles; the answer is parsed and cached
AsOpenAI(ok, sc) ==
  /\ asPc = "openai"
  /\ IF ok
     THEN /\ asOut' = [kind |-> "result", chatgptScore |-> sc[1], googleScore |-> sc[2]]
          /\ asCached' = [asCached EXCEPT ![AsKey(asBrand)] = asOut']
          /\ asPc' = "save"
     ELSE /\ asPc' = "catch"
          /\ UNCHANGED <<asOut, asCached>>
  /\ UNCHANGED <<asCount, asPlan, asBrand, asCalls, asLimited, nonAsVars>>

\* lines 76-81 and 134-156: saveAnalysisToDatabase (a failed create is
\* swallowed), logAction, return result
AsSave(saved) ==
  /\ asPc = "save"
  /\ asCount' = IF saved THEN asCount + 1 ELSE asCount
  /\ asPc' = "idle"
  /\ UNCHANGED <<asPlan, asCached, asBrand, asOut, asCalls, asLimited, nonAsVars>>

\* lines 82-90: the catch block returns getFallbackResult(brandName)
AsCatch(c, g) ==
  /\ asPc = "catch"
  /\ asOut' = [kind |-> "fallback", chatgptScore |-> c, googleScore |-> g]
  /\ asPc' = "idle"
  /\ UNCHANGED <<asCount, asPlan, asCached, asBrand, asCalls, asLimited, nonAsVars>>

\* lines 68-73: the entry was set with EX CACHE_TTL; Redis drops it when the
\* TTL has run out
AsCacheExpire(k) ==
  /\ asCached[k].kind # "none"
  /\ asCached' = [asCached EXCEPT ![k] = NoAsOut]
  /\ UNCHANGED <<asCount, asPlan, asPc, asBrand, asOut, asCalls, asLimited, nonAsVars>>

AsNext ==
  \/ \E b \in AsBrands : AsStart(b)
  \/ \E found \in BOOLEAN : AsCheckRateLimits(found)
  \/ AsCacheGet
  \/ \E ok \in BOOLEAN, sc \in OpenAIScores : AsOpenAI(ok, sc)
  \/ \E saved \in BOOLEAN : AsSave(saved)
  \/ \E c \in FallbackScores, g \in FallbackScores : AsCatch(c, g)
  \/ \E k \in AsKeys : AsCacheExpire(k)

(***************************************************************************)
(* ProvidersService (services/providers.service.ts)                        *)
(***************************************************************************)

\* Provider names of the configs list (3 of the 5).
PsNames == {"openai", "deepseek", "groq"}

\* (chatgpt_score, google_score) pairs a parsed answer may carry.
PsScores == {<<80, 60>>, <<0, 40>>}

\* What the request to the provider leads to: a JSON answer, an answer whose
\* JSON object is empty (also content null, read as '{}'), a rejected
\* request, an answer without a JSON object, one whose {...} does not parse.
PsOutcomes == {"json", "empty", "remote", "nojson", "badjson"}

PsIdle == [kind |-> "idle", cause |-> "none", error |-> "none",
           chatgpt_score |-> -1, google_score |-> -1]

PsPending == [PsIdle EXCEPT !.kind = "pending"]

\* lines 103-109
PsNotConfigured ==
  [kind |-> "resolved", cause |-> "unconfigured", error |-> "Provider not available",
   chatgpt_score |-> 0, google_score |-> 0]

\* error.message of what the try block threw
PsMessage(outcome) ==
  CASE outcome = "remote" -> "Connection error."
    [] outcome = "nojson" -> "No valid JSON in response"
    [] outcome = "badjson" -> "Unexpected token"

\* Mutant of PsSettled: a failure inside the try block is not caught.
PsSettledUncaught(outcome, sc) ==
  IF outcome = "json"
  THEN [kind |-> "resolved", cause |-> outcome, error |-> "none",
        chatgpt_score |-> sc[1], google_score |-> sc[2]]
  ELSE IF outcome = "empty"
  THEN [kind |-> "resolved", cause |-> outcome, error |-> "none",
        chatgpt_score |-> 0, google_score |-> 0]
  ELSE [kind |-> "rejected", cause |-> outcome, error |-> PsMessage(outcome),
        chatgpt_score |-> -1, google_score |-> -1]

\* lines 112-152: what the promise of analyzeWithProvider settles with
PsSettled(outcome, sc) ==
  IF outcome = "json"
  THEN [kind |-> "resolved", cause |-> outcome, error |-> "none",
        chatgpt_score |-> sc[1], google_score |-> sc[2]]
  ELSE IF outcome = "empty"
  THEN [kind |-> "resolved", cause |-> outcome, error |-> "none",
        chatgpt_score |-> 0, google_score |-> 0]
  ELSE [kind |-> "resolved", cause |-> outcome, error |-> PsMessage(outcome),
        chatgpt_score |-> 0, google_score |-> 0]

NoAllOut == [kind |-> "none", results |-> <<>>]

NoAgg == [kind |-> "none"]

SetMin(S) == CHOOSE x \in S : \A y \in S : x <= y

SetMax(S) == CHOOSE x \in S : \A y \in S : x >= y

\* providers.service.ts 246: results.filter(r => !r.error && r.chatgpt_score > 0)
ValidResults(results) ==
  {p \in DOMAIN results : results[p].error = "none" /\ results[p].chatgpt_score > 0}

\* providers.service.ts 245-305: aggregateResults, the fields that carry numbers.
AggregateResults(results) ==
  LET valid == ValidResults(results)
      cg == [p \in valid |-> results[p].chatgpt_score]
      gg == [p \in valid |-> results[p].google_score]
      cgs == {cg[p] : p \in valid}
      ggs == {gg[p] : p \in valid}
  IN IF valid = {}
     THEN [kind |-> "default", chatgpt |-> 50, google |-> 50]
     ELSE [kind |-> "aggregate",
           chatgpt |-> RoundDiv(SumOver(cg, valid), Cardinality(valid)),
           google |-> RoundDiv(SumOver(gg, valid), Cardinality(valid)),
           chatgptRange |-> [min |-> SetMin(cgs), max |-> SetMax(cgs)],
           googleRange |-> [min |-> SetMin(ggs), max |-> SetMax(ggs)],
           providersUsed |-> Cardinality(valid),
           variance |-> [chatgpt |-> SetMax(cgs) - SetMin(cgs),
                         google |-> SetMax(ggs) - SetMin(ggs)]]

PsInit ==
  /\ psProviders \in SUBSET PsNames
  /\ psRes = [p \in PsNames |-> PsIdle]
  /\ psAllPc = "idle"
  /\ psAllOut = NoAllOut
  /\ psAgg = NoAgg

PsQuiet ==
  /\ psProviders = {}
  /\ psRes = [p \in PsNames |-> PsIdle]
  /\ psAllPc = "idle"
  /\ psAllOut = NoAllOut
  /\ psAgg = NoAgg

\* analyzeWithProvider(p, ...) is called on its own (lines 95-121)
PsAnalyze(p) ==
  /\ psAllPc # "awaiting"
  /\ psRes[p].kind # "pending"
  /\ psRes' = [psRes EXCEPT ![p] = IF p \in psProviders THEN PsPending ELSE PsNotConfigured]
  /\ UNCHANGED <<psProviders, psAllPc, psAllOut, psAgg, nonPsVars>>

\* analyzeWithAllProviders up to its await (lines 156-229): one
\* analyzeWithProvider call per key of this.providers
PsAll ==
  /\ psAllPc # "awaiting"
  /\ \A p \in PsNames : psRes[p].kind # "pending"
  /\ psRes' = [p \in PsNames |-> IF p \in psProviders THEN PsPending ELSE PsIdle]
  /\ psAllPc' = "awaiting"
  /\ psAllOut' = NoAllOut
  /\ psAgg' = NoAgg
  /\ UNCHANGED <<psProviders, nonPsVars>>

\* The request of a pending analyzeWithProvider call settles (lines 113-152)
PsSettle(p, outcome, sc) ==
  /\ psRes[p].kind = "pending"
  /\ psRes' = [psRes EXCEPT ![p] = PsSettled(outcome, sc)]
  /\ UNCHANGED <<psProviders, psAllPc, psAllOut, psAgg, nonPsVars>>

\* Promise.all(promises) settles (lines 229-241): it rejects as soon as one
\* promise has rejected, and resolves with every result once all have resolved
PsAllSettle ==
  /\ psAllPc = "awaiting"
  /\ IF \E p \in psProviders : psRes[p].kind = "rejected"
     THEN psAllOut' = [kind |-> "rejected", results |-> <<>>]
     ELSE /\ \A p \in psProviders : psRes[p].kind = "resolved"
          /\ psAllOut' = [kind |-> "resolved",
                          results |-> [p \in psProviders |-> psRes[p]]]
  /\ psAllPc' = "settled"
  /\ UNCHANGED <<psProviders, psRes, psAgg, nonPsVars>>

\* aggregateResults is applied to the results analyzeWithAllProviders resolved with.
PsAggregate ==
  /\ psAllPc = "settled"
  /\ psAllOut.kind = "resolved"
  /\ psAgg = NoAgg
  /\ psAgg' = AggregateResults(psAllOut.results)
  /\ UNCHANGED <<psProviders, psRes, psAllPc, psAllOut, nonPsVars>>

PsNext ==
  \/ \E p \in PsNames : PsAnalyze(p)
  \/ PsAll
  \/ \E p \in PsNames, outcome \in PsOutcomes, sc \in PsScores : PsSettle(p, outcome, sc)
  \/ PsAllSettle
  \/ PsAggregate

(***************************************************************************)
(* Lock (shared/lock.ts): one key                                          *)
(***************************************************************************)

LkClients == {"a", "b", "c"}

\* The ttlMs argument, the same for every client.
LkTtlMs == 2000

LkTickMs == LkTtlMs \div 2
MaxLkTicks == 4

LkInit ==
  /\ lkNow = LkTickMs
  /\ lkExp = 0
  /\ lkPc = [c \in LkClients |-> "idle"]
  /\ lkHoldExp = [c \in LkClients |-> 0]
  /\ lkRet = [c \in LkClients |-> "none"]

LkQuiet == LkInit

\* Mutant of AcquireLock: SET without NX.
AcquireLockNoNX(c) ==
  /\ lkPc[c] = "idle"
  /\ lkExp' = lkNow + LkTtlMs
  /\ lkPc' = [lkPc EXCEPT ![c] = "locked"]
  /\ lkHoldExp' = [lkHoldExp EXCEPT ![c] = lkNow + LkTtlMs]
  /\ lkRet' = [lkRet EXCEPT ![c] = "true"]
  /\ UNCHANGED <<lkNow, nonLkVars>>

\* lock.ts 3-11: SET key 1 NX PX ttlMs; true iff the reply is OK
AcquireLock(c) ==
  /\ lkPc[c] = "idle"
  /\ IF lkExp = 0
     THEN /\ lkExp' = lkNow + LkTtlMs
          /\ lkPc' = [lkPc EXCEPT ![c] = "locked"]
          /\ lkHoldExp' = [lkHoldExp EXCEPT ![c] = lkNow + LkTtlMs]
          /\ lkRet' = [lkRet EXCEPT ![c] = "true"]
     ELSE /\ lkRet' = [lkRet EXCEPT ![c] = "false"]
          /\ UNCHANGED <<lkExp, lkPc, lkHoldExp>>
  /\ UNCHANGED <<lkNow, nonLkVars>>

\* lock.ts 13-19: DEL key; a failed DEL is logged and swallowed
ReleaseLock(c, ok) ==
  /\ lkPc[c] = "locked"
  /\ lkExp' = IF ok THEN 0 ELSE lkExp
  /\ lkPc' = [lkPc EXCEPT ![c] = "idle"]
  /\ UNCHANGED <<lkNow, lkHoldExp, lkRet, nonLkVars>>

\* Time passes; Redis drops the key when its TTL has run out.
LkTick ==
  /\ lkNow < LkTickMs + MaxLkTicks * LkTickMs
  /\ lkNow' = lkNow + LkTickMs
  /\ lkExp' = IF lkExp # 0 /\ lkExp <= lkNow' THEN 0 ELSE lkExp
  /\ UNCHANGED <<lkPc, lkHoldExp, lkRet, nonLkVars>>

LkNext ==
  \/ \E c \in LkClients : AcquireLock(c)
  \/ \E c \in LkClients, ok \in BOOLEAN : ReleaseLock(c, ok)
  \/ LkTick

(***************************************************************************)
(* Scores of one runMultiProviderAnalysis (index.ts 838-951, 970-985)      *)
(***************************************************************************)

\* The providers of the run, each resolving with any score of the range.
ScProviders == {"chatgpt", "deepseek"}

\* ProviderResult.score as the providers are asked to report it.
ScoreRange == 0 .. 100

\* The per-provider display fields of finalResult (index.ts 923-927).
DisplayNames == {"chatgpt", "deepseek", "mistral", "grok", "gemini"}

NoScResult == [kind |-> "none"]

\* index.ts 909-913, 923-927: (providerScores.x || 0) * displayMultiplier
DisplayField(x, tier, scores, succ) ==
  (IF x \in succ THEN scores[x] ELSE 0) * DisplayMultiplier(tier)

\* index.ts 920-943: finalResult, the fields that carry scores.
FinalResult(tier, scores, succ) ==
  [kind |-> "final",
   score |-> AvgScore(scores, succ) * DisplayMultiplier(tier),
   display |-> [x \in DisplayNames |-> DisplayField(x, tier, scores, succ)],
   providers |-> [p \in succ |-> scores[p]],
   tier |-> tier]

\* index.ts 974-985: the result the catch block stores.
CatchResult(tier) ==
  [kind |-> "catch",
   score |-> IF tier = "free" THEN 5 ELSE 30,
   tier |-> tier]

ScSucceeded == {p \in ScProviders : scCall[p] = "fulfilled"}

ScInit ==
  /\ scTier \in {"free", "pro"}
  /\ scCall = [p \in ScProviders |-> "pending"]
  /\ scRaw = [p \in ScProviders |-> 0]
  /\ scVal = [p \in ScProviders |-> 0]
  /\ scResult = NoScResult

ScQuiet ==
  /\ scTier = "free"
  /\ scCall = [p \in ScProviders |-> "pending"]
  /\ scRaw = [p \in ScProviders |-> 0]
  /\ scVal = [p \in ScProviders |-> 0]
  /\ scResult = NoScResult

\* index.ts 842-851: p.analyze resolves with score s; the free tier rescales it.
ScFulfil(p, s) ==
  /\ scCall[p] = "pending"
  /\ scCall' = [scCall EXCEPT ![p] = "fulfilled"]
  /\ scRaw' = [scRaw EXCEPT ![p] = s]
  /\ scVal' = [scVal EXCEPT ![p] = ScaleScore(scTier, s)]
  /\ UNCHANGED <<scTier, scResult, nonScVars>>

\* index.ts 852-855: p.analyze rejects.
ScReject(p) ==
  /\ scCall[p] = "pending"
  /\ scCall' = [scCall EXCEPT ![p] = "rejected"]
  /\ UNCHANGED <<scTier, scRaw, scVal, scResult, nonScVars>>

\* index.ts 859-951, 970-985: the continuation after Promise.allSettled.
ScFinalize ==
  /\ scResult = NoScResult
  /\ \A p \in ScProviders : scCall[p] # "pending"
  /\ scResult' = IF ScSucceeded = {}
                 THEN CatchResult(scTier)
                 ELSE FinalResult(scTier, scVal, ScSucceeded)
  /\ UNCHANGED <<scTier, scCall, scRaw, scVal, nonScVars>>

ScNext ==
  \/ \E p \in ScProviders, s \in ScoreRange : ScFulfil(p, s)
  \/ \E p \in ScProviders : ScReject(p)
  \/ ScFinalize

(***************************************************************************)
(* AnalyzerService.analyzeWithOpenAI, concurrent requests (part_004)       *)
(*                                                                         *)
(* One FREE-plan user; every request names a brand that is not cached.     *)
(***************************************************************************)

\* The requests of the user that may be in progress together.
CqReqs == {"q1", "q2", "q3"}

\* Rows created earlier today, one per analysis performed then.
CqInit ==
  /\ cqRows \in 0 .. FreeLimit
  /\ cqPerformed = cqRows
  /\ cqPc = [r \in CqReqs |-> "idle"]

CqQuiet ==
  /\ cqRows = 0
  /\ cqPerformed = 0
  /\ cqPc = [r \in CqReqs |-> "idle"]

\* analyzeWithOpenAI(brandName, userId) is invoked (line 29)
CqStart(r) ==
  /\ cqPc[r] = "idle"
  /\ cqPc' = [cqPc EXCEPT ![r] = "rate"]
  /\ UNCHANGED <<cqRows, cqPerformed, nonCqVars>>

\* lines 32, 158-196: checkRateLimits counts today's rows; lines 35-47: the
\* cache misses and the request to OpenAI is made
CqCheckRateLimits(r) ==
  /\ cqPc[r] = "rate"
  /\ cqPc' = [cqPc EXCEPT ![r] = IF QuotaReached(cqRows, "FREE") THEN "done" ELSE "openai"]
  /\ UNCHANGED <<cqRows, cqPerformed, nonCqVars>>

\* lines 47-73: OpenAI answers (ok) or the request fails (catch, 82-90)
CqOpenAI(r, ok) ==
  /\ cqPc[r] = "openai"
  /\ cqPerformed' = IF ok THEN cqPerformed + 1 ELSE cqPerformed
  /\ cqPc' = [cqPc EXCEPT ![r] = IF ok THEN "save" ELSE "done"]
  /\ UNCHANGED <<cqRows, nonCqVars>>

\* lines 76, 134-156: saveAnalysisToDatabase; a failed create is swallowed
CqSave(r, saved) ==
  /\ cqPc[r] = "save"
  /\ cqRows' = IF saved THEN cqRows + 1 ELSE cqRows
  /\ cqPc' = [cqPc EXCEPT ![r] = "done"]
  /\ UNCHANGED <<cqPerformed, nonCqVars>>

CqNext ==
  \/ \E r \in CqReqs : CqStart(r)
  \/ \E r \in CqReqs : CqCheckRateLimits(r)
  \/ \E r \in CqReqs, ok \in BOOLEAN : CqOpenAI(r, ok)
  \/ \E r \in CqReqs, saved \in BOOLEAN : CqSave(r, saved)

(***************************************************************************)
(* Specifications                                                          *)
(***************************************************************************)

\* Jobs are submitted and run; the other subsystems are at rest.
InitJob == JobInit /\ CbQuiet /\ RtQuiet /\ RlQuiet /\ QQuiet /\ AsQuiet /\ OrdQuiet /\ PsQuiet /\ LkQuiet /\ ScQuiet /\ CqQuiet

SpecJob == InitJob /\ [][JobNext]_vars

\* The event loop runs a continuation once its promise has settled, and a call
\* of a provider with an AbortController deadline settles; a call without one
\* (the OpenAI SDK call of ChatGPTProvider / ChatGPTFreeProvider) need not.
JobFairness ==
  /\ \A r \in Runs : WF_vars(Finalize(r) /\ UNCHANGED ordVars)
  /\ \A r \in Runs, p \in {q \in Providers : HasDeadline(q)} :
       WF_vars((ProviderReject(r, p) \/ \E s \in ScoreSamples : ProviderFulfil(r, p, s))
               /\ UNCHANGED ordVars)

FairSpecJob == SpecJob /\ JobFairness

InitCB == CbInit /\ JobQuiet /\ RtQuiet /\ RlQuiet /\ QQuiet /\ AsQuiet /\ OrdQuiet /\ PsQuiet /\ LkQuiet /\ ScQuiet /\ CqQuiet

SpecCB == InitCB /\ [][CbNext]_vars

\* c's next step of shouldShortCircuit: its call, or one of its Redis commands.
SscStep(c) ==
  \/ \E p \in CBProviders : SscGetState(c, p)
  \/ SscGetOpenAt(c)
  \/ SscSetProbe(c)
  \/ SscSetHalf(c)

\* Calls keep arriving and every Redis command of shouldShortCircuit is
\* answered, so each caller's next step of shouldShortCircuit is taken; the
\* clock advances.  Nothing makes an admitted caller report an outcome.
CbFairness ==
  /\ \A c \in Callers : WF_vars(SscStep(c))
  /\ WF_vars(CbLeap)

FairSpecCB == InitCB /\ [][CbLiveNext]_vars /\ CbFairness

\* Both providers are called.
InitCB2 == CbInitFor(CBProviders) /\ JobQuiet /\ RtQuiet /\ RlQuiet /\ QQuiet /\ AsQuiet /\ OrdQuiet /\ PsQuiet /\ LkQuiet /\ ScQuiet /\ CqQuiet

SpecCB2 == InitCB2 /\ [][Cb2Next]_vars

InitRetry == RtInit /\ JobQuiet /\ CbQuiet /\ RlQuiet /\ QQuiet /\ AsQuiet /\ OrdQuiet /\ PsQuiet /\ LkQuiet /\ ScQuiet /\ CqQuiet

SpecRetry == InitRetry /\ [][RtNext]_vars

InitRL == RlInit /\ JobQuiet /\ CbQuiet /\ RtQuiet /\ QQuiet /\ AsQuiet /\ OrdQuiet /\ PsQuiet /\ LkQuiet /\ ScQuiet /\ CqQuiet

SpecRL == InitRL /\ [][RlNext]_vars

\* The server was started with Grok alone configured.
InitCfg == JobInitWith({"grok"}) /\ CbQuiet /\ RtQuiet /\ RlQuiet /\ QQuiet /\ AsQuiet /\ OrdQuiet /\ PsQuiet /\ LkQuiet /\ ScQuiet /\ CqQuiet

SpecCfg == InitCfg /\ [][CfgNext]_vars

InitQ == QInit /\ JobQuiet /\ CbQuiet /\ RtQuiet /\ RlQuiet /\ AsQuiet /\ OrdQuiet /\ PsQuiet /\ LkQuiet /\ ScQuiet /\ CqQuiet

SpecQ == InitQ /\ [][QNext]_vars

\* AnalyzerService.analyzeWithOpenAI requests of one user.
InitAs == AsInit /\ JobQuiet /\ CbQuiet /\ RtQuiet /\ RlQuiet /\ QQuiet /\ OrdQuiet /\ PsQuiet /\ LkQuiet /\ ScQuiet /\ CqQuiet

\* ProvidersService with any set of configured providers.
InitPs ==
  PsInit /\ JobQuiet /\ CbQuiet /\ RtQuiet /\ RlQuiet /\ QQuiet /\ AsQuiet /\ OrdQuiet
         /\ LkQuiet /\ ScQuiet /\ CqQuiet

SpecPs == InitPs /\ [][PsNext]_vars

\* Clients of one lock key.
InitLk ==
  LkInit /\ JobQuiet /\ CbQuiet /\ RtQuiet /\ RlQuiet /\ QQuiet /\ AsQuiet /\ OrdQuiet
         /\ PsQuiet /\ ScQuiet /\ CqQuiet

SpecLk == InitLk /\ [][LkNext]_vars

\* One run of either tier, its providers resolving with any score of 0..100.
InitSc == ScInit /\ JobQuiet /\ CbQuiet /\ RtQuiet /\ RlQuiet /\ QQuiet /\ AsQuiet /\ OrdQuiet /\ PsQuiet /\ LkQuiet /\ CqQuiet

SpecSc == InitSc /\ [][ScNext]_vars

\* Concurrent analyzeWithOpenAI requests of one FREE-plan user.
InitCq == CqInit /\ JobQuiet /\ CbQuiet /\ RtQuiet /\ RlQuiet /\ QQuiet /\ AsQuiet /\ OrdQuiet /\ PsQuiet /\ LkQuiet /\ ScQuiet

SpecCq == InitCq /\ [][CqNext]_vars

\* Jobs with every provider enabled, the completion order recorded.
InitAgg == JobQuiet /\ CbQuiet /\ RtQuiet /\ RlQuiet /\ QQuiet /\ AsQuiet /\ OrdQuiet /\ PsQuiet /\ LkQuiet /\ ScQuiet /\ CqQuiet

SpecAgg == InitAgg /\ [][AggNext]_vars

SpecAs == InitAs /\ [][AsNext]_vars

(***************************************************************************)
(* Claims about the job store                                              *)
(***************************************************************************)

\* Providers of run r whose call fulfilled / rejected, read off the promises.
FulfilledCalls(r) == {p \in Providers : call[r][p] = "fulfilled"}

AllCallsRejected(r) == \A p \in Providers : call[r][p] \in {"none", "rejected"}

\* The record of r's job is the one r's own processing stored last.
FinalOf(r) == runPc[r] = "done" /\ lastWriter[runId[r]] = r

\* Math.round of the mean of the scores the fulfilled providers returned.
RoundedMeanOfReturned(r) ==
  RoundDiv(SumOver(raw[r], FulfilledCalls(r)), Cardinality(FulfilledCalls(r)))

\* C1: for every job with at least one fulfilled provider, in every tier, the
\* final record is "completed" and result.score is the rounded mean of the
\* scores the fulfilled providers returned.
C1_ScoreIsRoundedMean ==
  \A r \in Runs :
    (FinalOf(r) /\ FulfilledCalls(r) # {}) =>
      /\ jobResults[runId[r]].status = "completed"
      /\ jobResults[runId[r]].error = "none"
      /\ jobResults[runId[r]].score = RoundedMeanOfReturned(r)

C3_EveryJobTerminates ==
  \A r \in Runs : (runPc[r] = "awaiting") ~> (runPc[r] = "done")

\* The ids of the jobs submitted so far.
SubmittedIds == {runId[r] : r \in {q \in Runs : runPc[q] # "idle"}}

\* C13: GET /api/analyzer/results/:id answers 404 if and only if no job with
\* that id was submitted; for a submitted job it answers 200 with the stored
\* record, whose status is "processing" until the job is terminal.
C13_NotFoundIffUnknown ==
  /\ \A id \in PollIds :
        /\ GetResults(id).code = 404 <=> id \notin SubmittedIds
        /\ id \in SubmittedIds => GetResults(id).code = 200
        /\ id \notin SubmittedIds => GetResults(id).body.status \notin {"processing", "completed"}
  /\ \A r \in Runs :
        runPc[r] = "awaiting" => GetResults(runId[r]).body.status = "processing"

C16_ProvidersFreshPerJob ==
  [][\A r \in Runs :
       (runPc[r] = "idle" /\ runPc'[r] # "idle") =>
         {p \in Providers : call'[r][p] = "pending"} = BuildProviders(runTier'[r], config)]_vars

\* The providers job r called.
CalledProviders(r) == {p \in Providers : call[r][p] # "none"}

\* C17: a job of which at least one but fewer than half of the providers
\* succeeded ends "completed" with a low-confidence flag in its result, and the
\* result of a job whose providers all succeeded carries no such flag.
C17_LowConfidenceFlag ==
  \A r \in Runs :
    FinalOf(r) =>
      LET rec == jobResults[runId[r]]
          n == Cardinality(CalledProviders(r))
          k == Cardinality(Succeeded(r))
      IN /\ (k >= 1 /\ 2 * k < n) => rec.status = "completed" /\ rec.confidence = "Low"
         /\ (k >= 1 /\ k = n) => rec.confidence # "Low"

(***************************************************************************)
(* Claims about the circuit breaker                                        *)
(***************************************************************************)

\* Callers admitted as the probe of p, after the delay, whose call is still
\* being made.
OutstandingProbes(p) ==
  {c \in Callers : cprov[c] = p /\ admit[c] = "probe" /\ cpc[c] = "calling"}

\* C4: once the circuit is open and halfOpenDelay has elapsed, exactly one
\* caller is admitted as the probe, and no other caller is admitted until the
\* probe's outcome has been recorded.
C4_SingleAdmission ==
  /\ \A p \in CBProviders : Cardinality(OutstandingProbes(p)) <= 1
  /\ \A c \in Callers : admit[c] # "overlap"

\* C5: while the circuit is open and halfOpenDelay has not elapsed since it
\* opened, no caller is admitted, in any interleaving with recordFailure and
\* recordSuccess.
C5_NoAdmissionBeforeDelay ==
  \A c \in Callers : admit[c] # "early"

\* The step is the INCR of c's recordFailure.
IncrStep(c) ==
  /\ cpc[c] = "calling"
  /\ cpc'[c] \in {"rf_pexpire", "rf_setOpen", "idle"}

\* c's recordFailure goes on to open the circuit.
GoesToOpen(c) == cpc[c] # "rf_setOpen" /\ cpc'[c] = "rf_setOpen"

\* C6: the circuit is opened at the N-th recordFailure since the last
\* recordSuccess when these N fall within winMs (N = thld), and by no
\* recordFailure that is not at least the N-th since the last recordSuccess;
\* the recordFailure that opens sets the state to open.
C6_OpensAtThreshold ==
  [][\A c \in Callers :
       /\ (IncrStep(c) /\ streak'[cprov[c]] >= thld
             /\ now - streakStart'[cprov[c]] < winMs) => cpc'[c] = "rf_setOpen"
       /\ (GoesToOpen(c) /\ IncrStep(c)) => streak'[cprov[c]] >= thld
       /\ (GoesToOpen(c) /\ ~IncrStep(c)) => thld <= 1
       /\ (cpc[c] = "rf_setOpen" /\ cpc'[c] # "rf_setOpen") => cbState'[cprov[c]] = "open"
    ]_vars

\* C6 witness: a recordFailure that is exactly the N-th since a recordSuccess
\* reset the count is about to open a closed circuit.
C6_Witness ==
  \E c \in Callers :
    /\ cpc[c] = "rf_setOpen"
    /\ streak[cprov[c]] = thld
    /\ cbFails[cprov[c]] = thld
    /\ cbState[cprov[c]] = "closed"

\* c, admitted as the probe after the delay, completes recordFailure in this step.
ProbeFailureRecorded(c) ==
  /\ admit[c] = "probe"
  /\ cpc[c] \in {"calling", "rf_pexpire", "rf_setOpenAt"}
  /\ cpc'[c] = "idle"

\* C7: a probe that fails puts the circuit back in state open and sets
\* openedAt to the time of that failure.
C7_FailedProbeReopens ==
  [][\A c \in Callers :
       ProbeFailureRecorded(c) =>
         /\ cbState'[cprov[c]] = "open"
         /\ cbOpenAt'[cprov[c]] = now'
    ]_vars

\* The edges of the circuit's state machine.
CbEdges ==
  {<<"closed", "open">>, <<"open", "half">>, <<"half", "closed">>, <<"half", "open">>}

\* C8: every change of a circuit's state follows one of the edges
\* closed->open, open->half_open, half_open->closed, half_open->open.
C8_OnlyLegalEdges ==
  [][\A p \in CBProviders :
       StateOf(cbState'[p]) # StateOf(cbState[p]) =>
         <<StateOf(cbState[p]), StateOf(cbState'[p])>> \in CbEdges
    ]_vars

\* C18: failures are counted in a rolling window: on a closed circuit that no
\* handler is opening yet, a recordFailure that is the N-th within an interval
\* shorter than CB_WINDOW_MS, with no recordSuccess between them, opens the
\* circuit and records openedAt.
C18_RollingWindow ==
  [][\A c \in Callers :
       LET p == cprov[c]
       IN /\ (/\ IncrStep(c)
              /\ StateOf(cbState[p]) = "closed"
              /\ \A d \in Callers : cpc[d] \notin {"rf_setOpen", "rf_setOpenAt"}
              /\ Len(recent'[p]) = thld
              /\ recent'[p][thld] - recent'[p][1] < winMs) => cpc'[c] = "rf_setOpen"
          /\ (cpc[c] = "rf_setOpen" /\ cpc'[c] # "rf_setOpen") => cbState'[p] = "open"
          /\ (cpc[c] = "rf_setOpenAt" /\ cpc'[c] # "rf_setOpenAt") => cbOpenAt'[p] = now']_vars

\* The recordSuccess of c, for a call admitted as the probe, returns.
ProbeSuccessRecorded(c) ==
  /\ admit[c] = "probe"
  /\ cpc[c] \in {"rs_delAll", "rs_delFail"}
  /\ cpc'[c] = "idle"

\* C19: when the recordSuccess of a probe returns, the circuit is closed and
\* the failure counter, openedAt and the probe marker are cleared.
C19_SuccessfulProbeCloses ==
  [][\A c \in Callers :
       ProbeSuccessRecorded(c) =>
         /\ StateOf(cbState'[cprov[c]]) = "closed"
         /\ cbFails'[cprov[c]] = 0
         /\ cbOpenAt'[cprov[c]] = 0
         /\ ~cbProbe'[cprov[c]]]_vars

\* A step of a shouldShortCircuit call of c that has not won the probe: its
\* reads, and its return of true.
ShortCircuitStep(c) ==
  \/ cpc[c] = "idle" /\ cpc'[c] = "ssc_getOpenAt"
  \/ cpc[c] = "ssc_getOpenAt" /\ cpc'[c] \in {"ssc_setProbe", "idle"}
  \/ cpc[c] = "ssc_setProbe" /\ cpc'[c] = "idle"

\* C20: a short-circuited call is not counted as a failure: the steps of a
\* shouldShortCircuit call that returns true leave the failure counter, the
\* circuit state and openedAt unchanged, and the call is not made.
C20_ShortCircuitFrame ==
  [][\A c \in Callers :
       ShortCircuitStep(c) =>
         /\ cbFails' = cbFails
         /\ cbFailsExp' = cbFailsExp
         /\ cbState' = cbState
         /\ cbOpenAt' = cbOpenAt
         /\ streak' = streak
         /\ cpc'[c] = "idle" => admit'[c] = "short"]_vars

\* C20 witness: a caller has just been short-circuited on an open circuit
\* whose failure counter still holds the failures that opened it.
C20_Witness ==
  \E c \in Callers :
    /\ cpc[c] = "idle"
    /\ admit[c] = "short"
    /\ cbState[cprov[c]] = "open"
    /\ cbFails[cprov[c]] >= thld

\* C25: when the user's quota is exhausted the request is rejected with a
\* rate-limit error and yields no analysis result: analyzeWithOpenAI neither
\* calls the provider nor returns scores to the caller.
C25_QuotaRejects ==
  (asPc = "idle" /\ asLimited) =>
    /\ asCalls = 0
    /\ asOut.kind = "rejected"
    /\ asOut.chatgptScore = -1
    /\ asOut.googleScore = -1

\* C26: once a job's record in the job store has status "completed" it is
\* never modified again, neither by a later step of its own processing nor
\* by the submission or processing of another job.
C26_CompletedImmutable ==
  [][\A id \in JobIds :
       (jobResults[id] # NoJob /\ jobResults[id].status = "completed")
         => jobResults'[id] = jobResults[id]]_vars

\* C27: in every reachable state of the job store a record has a result
\* field if and only if its status is "completed"; a record in status
\* "processing" never carries a result.
C27_ResultIffCompleted ==
  \A id \in JobIds :
    jobResults[id] # NoJob =>
      /\ jobResults[id].hasResult <=> jobResults[id].status = "completed"
      /\ jobResults[id].status = "processing" => ~jobResults[id].hasResult

\* One record is still processing while another is completed, one stored by
\* the catch block among them.
C27_Witness ==
  \E a, b \in JobIds :
    /\ jobResults[a] # NoJob /\ jobResults[a].status = "processing"
    /\ jobResults[b] # NoJob /\ jobResults[b].status = "completed"
    /\ jobResults[b].hasResult
    /\ jobResults[b].error = "Analysis failed"

\* The providers of invocation r whose call fulfilled.
FulfilledSet(r) == {p \in Providers : call[r][p] = "fulfilled"}

LkHolds(c) == lkPc[c] = "locked" /\ lkNow < lkHoldExp[c]

\* C30: a client can only release a lock it currently holds, so that at no
\* time two clients both hold the lock of the same key.
C30_MutualExclusion ==
  \A c1, c2 \in LkClients : (LkHolds(c1) /\ LkHolds(c2)) => c1 = c2

\* C31: for one lock key, among concurrent acquireLock calls exactly one
\* returns true, and no later acquireLock returns true until the key has
\* been released or its TTL has expired.
C31_OneWinner ==
  [][/\ \A c \in LkClients :
          (lkPc[c] = "idle" /\ lkPc'[c] = "locked")
            => /\ lkRet'[c] = "true"
               /\ lkExp = 0
               /\ lkExp' # 0
               /\ \A d \in LkClients \ {c} : lkRet'[d] = lkRet[d] /\ lkPc'[d] = lkPc[d]
     /\ \A c \in LkClients :
          (lkExp # 0 /\ lkPc[c] = "idle" /\ lkRet'[c] # lkRet[c]) => lkRet'[c] = "false"
     /\ (lkExp # 0 /\ lkExp' = 0)
          => \/ \E c \in LkClients : lkPc[c] = "locked" /\ lkPc'[c] = "idle"
             \/ lkNow' >= lkExp]_vars

\* Three clients called acquireLock while the key was absent: one got true,
\* the others false.
C31_Witness ==
  /\ lkExp # 0
  /\ Cardinality({c \in LkClients : lkRet[c] = "true" /\ lkPc[c] = "locked"}) = 1
  /\ Cardinality({c \in LkClients : lkRet[c] = "false"}) = 2

\* Every caller is between calls or inside shouldShortCircuit.
AllArriving == \A c \in Callers : cpc[c] \in {"idle", "ssc_getOpenAt", "ssc_setProbe", "ssc_setHalf"}

\* C32: an open circuit never excludes a provider for good: when the circuit
\* is open, halfOpenDelay has elapsed since it opened, calls keep arriving and
\* the clock can still advance, some call is eventually admitted
\* (shouldShortCircuit returns false), whatever became of earlier probes.
C32_EventuallyAdmitted ==
  \A p \in CBProviders :
    (/\ p \in cbActive
     /\ cbState[p] = "open"
     /\ DelayElapsed(cbOpenAt[p], now)
     /\ AllArriving
     /\ now < Horizon)
      ~> (\E c \in Callers : cpc[c] = "calling" /\ cprov[c] = p)

\* A probe is admitted after an earlier probe went away without reporting.
C32_Witness ==
  \E c, d \in Callers :
    /\ admit[c] = "lost"
    /\ cpc[c] = "idle"
    /\ admit[d] = "probe"
    /\ cpc[d] = "calling"
    /\ cprov[d] = cprov[c]
    /\ now - cbOpenAt[cprov[d]] > halfMs
    /\ cbOpenAt[cprov[d]] # 0

\* The Redis keys of provider q: state, fails, openAt and probe.
CbKeys(q) == <<cbState[q], cbFails[q], cbFailsExp[q], cbOpenAt[q], cbProbe[q], cbProbeExp[q]>>

\* C33: circuit state is per provider: a step of shouldShortCircuit,
\* recordSuccess or recordFailure called for provider p leaves the state,
\* failure counter, openedAt and probe marker of every other provider as they
\* were.
C33_PerProvider ==
  [][\A c \in Callers :
       cpc'[c] # cpc[c] =>
         \A q \in CBProviders \ {cprov'[c]} : CbKeys(q)' = CbKeys(q)]_vars

\* One provider's circuit is open while the other's, also in use, is not.
C33_Witness ==
  /\ cbState["p1"] = "open"
  /\ cbState["p2"] \in {"none", "closed"}
  /\ \E c \in Callers : cprov[c] = "p2" /\ cpc[c] = "calling"

\* C34: free-tier score normalisation preserves order: of two providers that
\* resolved with raw scores a <= b in 0..100, the one with a has neither a
\* greater recorded score nor a greater display field than the one with b.
C34_ScalingMonotone ==
  \A p, q \in ScProviders :
    (scCall[p] = "fulfilled" /\ scCall[q] = "fulfilled" /\ scRaw[p] <= scRaw[q])
      => /\ scVal[p] <= scVal[q]
         /\ scResult.kind = "final" => scResult.display[p] <= scResult.display[q]

InFanOut(j) == wPc[j] \in {"checks", "update", "cacheSet"}

\* C36: when two jobs with the same input are processed concurrently by the
\* worker pool, the providers are invoked for only one of them: the two are
\* never both past the cache lookup with their own provider checks started.
C36_SingleFanOut ==
  \A j, k \in QJobIds :
    (j # k /\ InFanOut(j) /\ InFanOut(k)) => qJobs[j].input # qJobs[k].input

\* The results handed to aggregateResults that carry no error.
ErrorFree == {p \in DOMAIN psAllOut.results : psAllOut.results[p].error = "none"}

\* C37: aggregateResults averages over exactly the results that carry no
\* error, a valid score 0 included: chatgpt and google are the rounded means
\* over those results, each lies between the reported range min and max,
\* variance is max - min, and providersUsed is the number of error-free
\* results.
C37_AggregateOverErrorFree ==
  (psAgg # NoAgg /\ ErrorFree # {}) =>
    LET res == psAllOut.results
        cg == [p \in ErrorFree |-> res[p].chatgpt_score]
        gg == [p \in ErrorFree |-> res[p].google_score]
    IN /\ psAgg.kind = "aggregate"
       /\ psAgg.providersUsed = Cardinality(ErrorFree)
       /\ psAgg.chatgpt = RoundDiv(SumOver(cg, ErrorFree), Cardinality(ErrorFree))
       /\ psAgg.google = RoundDiv(SumOver(gg, ErrorFree), Cardinality(ErrorFree))
       /\ psAgg.chatgptRange.min <= psAgg.chatgpt /\ psAgg.chatgpt <= psAgg.chatgptRange.max
       /\ psAgg.googleRange.min <= psAgg.google /\ psAgg.google <= psAgg.googleRange.max
       /\ psAgg.variance.chatgpt = psAgg.chatgptRange.max - psAgg.chatgptRange.min
       /\ psAgg.variance.google = psAgg.googleRange.max - psAgg.googleRange.min

\* C38: the daily quota holds under concurrency: for one user the number of
\* provider-backed analyses performed within one day never exceeds the limit
\* of the user's plan, also when the user's requests are processed
\* concurrently.
C38_QuotaUnderConcurrency == cqPerformed <= AsLimit("FREE")

\* C24: increment and expiry of the tenant's counter are one indivisible
\* step: in no reachable state does a counter with count >= 1 exist
\* without an expiry.
C24_CounterAlwaysExpires ==
  rlCount >= 1 => rlExp # 0

(***************************************************************************)
(* Claims about withRetry                                                  *)
(***************************************************************************)

\* The HTTP status behind an error: its status field, or the status a
\* fetch-based provider wrote at the end of the message (0: none, a network
\* or timeout error).
RaisedStatus(e) ==
  IF e.status > 0 THEN e.status
  ELSE LET w == e.msg[Len(e.msg)]
       IN CASE w = "429" -> 429
            [] w = "503" -> 503
            [] w = "400" -> 400
            [] w = "401" -> 401
            [] w = "403" -> 403
            [] OTHER -> 0

\* The claim's classification: rate-limited, server-side, or network/timeout.
RetryableClass(e) ==
  \/ RaisedStatus(e) = 429
  \/ RaisedStatus(e) >= 500
  \/ RaisedStatus(e) = 0 /\ MsgRetryable(e.msg)

\* C21: with defaultCanRetry, a failed call that is not the last attempt is
\* retried exactly when the failure is rate-limited (429), server-side (5xx)
\* or a network/timeout error, and fails immediately on 400/401/403, also
\* for errors raised as Error("<Provider> API error: <status>").
C21_RetryExactlyRetryable ==
  /\ rtPc = "sleeping" => RetryableClass(rtLastErr)
  /\ (rtPc = "idle" /\ rtOut.kind = "thrown" /\ rtI + 1 < rtAttempts)
       => ~RetryableClass(rtOut.err)

\* C22: when the attempts are exhausted withRetry rejects with the error of
\* the last attempt, not of an earlier one; when an attempt succeeds it
\* returns that attempt's value and makes no further call.
C22_LastErrorOrValue ==
  [][/\ (rtPc = "awaiting" /\ rtOut'.kind = "thrown")
          => rtOut'.err = rtLastErr' /\ rtOut'.err \in ErrSamples
     /\ (rtPc = "awaiting" /\ rtOut'.kind = "returned")
          => /\ rtOut'.value \in ValueSamples
             /\ rtPc' = "idle"
             /\ rtCalls' = rtCalls
     /\ (rtPc = "idle" /\ rtOut.kind = "returned" /\ rtOut' = rtOut)
          => rtCalls' = rtCalls]_vars

\* Every attempt failed with a retryable error, the first and the last
\* with different ones.
C22_Witness ==
  /\ rtPc = "idle"
  /\ rtOut.kind = "thrown"
  /\ rtI = rtAttempts
  /\ rtCalls >= 2
  /\ DefaultCanRetry(rtOut.err)
  /\ rtFirstErr # rtOut.err

\* base = min(maxMs, minMs * 2^k), as the claim states it.
ClaimBase(k, minMs, maxMs) ==
  IF minMs * Pow2(k) < maxMs THEN minMs * Pow2(k) ELSE maxMs

\* C23: for integer minMs <= maxMs and retry index k >= 0 the delay d slept
\* after failed attempt k satisfies base <= d <= 1.2 * base with
\* base = min(maxMs, minMs * 2^k); base is non-decreasing in k and never
\* exceeds maxMs.
C23_BackoffBounds ==
  rtPc = "sleeping" =>
    LET base == ClaimBase(rtI, rtMin, rtMax)
    IN /\ base <= rtDelay
       /\ 5 * rtDelay <= 6 * base
       /\ base <= rtMax
       /\ \A j \in 0..rtI : ClaimBase(j, rtMin, rtMax) <= base

\* A capped delay with jitter after the third failed attempt.
C23_Witness ==
  /\ rtPc = "sleeping"
  /\ rtI = 2
  /\ rtMin * Pow2(rtI) > rtMax
  /\ rtDelay > rtMax

\* C9: withRetry invokes fn at most `attempts` times in total, and exactly
\* once when the first error is classified non-retryable.
C9_AtMostAttemptsCalls ==
  /\ rtCalls <= rtAttempts
  /\ (rtOut.kind # "none" /\ rtFirstErr # NoErr /\ ~DefaultCanRetry(rtFirstErr)) => rtCalls = 1

(***************************************************************************)
(* Claims about the tenant rate limiter                                    *)
(***************************************************************************)

Min(a, b) == IF a < b THEN a ELSE b

RlAllReturned == \A c \in RlCallers : rlPc[c] = "idle"

\* C10: among k concurrent checkTenantRate calls of one tenant inside one
\* window, in every interleaving exactly min(k, Q) return true; never more
\* than Q are admitted in a window.
C10_ExactlyMinAdmitted ==
  /\ winTrue <= RlLimit
  /\ RlAllReturned => winTrue = Min(winCalls, RlLimit)

\* C10 witness: more calls than the quota were made in one window, concurrently
\* with the first call's EXPIRE, and all have returned.
C10_Witness ==
  /\ RlAllReturned
  /\ winCalls > RlLimit
  /\ winTrue = RlLimit
  /\ rlExp # 0

\* C11: of the calls of one tenant in one window, the 1st to the Q-th return
\* true and every later one returns false; the window lasts at most 60 s from
\* the EXPIRE of its first call, and the first call after it returns true.
C11_QuotaThenRefuse ==
  /\ \A c \in RlCallers :
        /\ rlRet[c].val = "true" => rlRet[c].ord <= RlLimit
        /\ rlRet[c].val = "false" => rlRet[c].ord > RlLimit
        /\ rlRet[c].val \in {"true", "false"} => rlRet[c].ord >= 1
  /\ rlExp # 0 => rlNow < rlExp /\ rlExp <= rlNow + RlWindowMs
  /\ rlCount = winCalls

\* C11 witness: a call was refused in one window and, after that window
\* expired, the first call of the next window returned true.
C11_Witness ==
  \E c, d \in RlCallers :
    /\ rlRet[c].val = "false"
    /\ rlRet[d].val = "true"
    /\ rlRet[d].ord = 1
    /\ rlRet[d].win > rlRet[c].win

(***************************************************************************)
(* Claims about the queue-based API                                        *)
(***************************************************************************)

\* C12: a submission whose input equals, after normalisation, that of a
\* submission that completed less than a cache TTL earlier returns the same
\* result as that one and triggers no provider call.
C12_NormalisedCacheHit ==
  \A j \in QJobIds :
    (qJobs[j].state = "completed" /\ wPrior[j] # {}) =>
      /\ qCalls[j] = 0
      /\ \E k \in wPrior[j] : qJobs[j].ret = qJobs[k].ret

\* C15: the jobId returned by POST /analyze identifies the job's result: once
\* the worker has completed the job (also when it was served from the cache),
\* GET /results/:id with that jobId returns the job's terminal status and result.
C15_PollByJobId ==
  \A j \in QJobIds :
    qJobs[j].state = "completed" =>
      LET answer == GetResultsQ(j)
      IN /\ answer.code = 200
         /\ answer.status \in {"COMPLETED", "FAILED"}
         /\ answer.result = qJobs[j].ret

====
